---- MODULE Spec2Model ----
(***************************************************************************)
(* Real-time messaging core of the social_media repository.                *)
(*                                                                         *)
(* Server side: backend/config/socket.js (socket.io server: authentication *)
(* middleware, presence map connectedUsers, rooms, event handlers).        *)
(* Client side: frontend/src/context/SocketContext.jsx (message list       *)
(* reconciliation in the messaging hub).                                   *)
(*                                                                         *)
(* Node.js runs every handler to completion on one thread, so one handler  *)
(* invocation (up to its first await) is one atomic action; each           *)
(* continuation after an await is a further action.                        *)
(***************************************************************************)
EXTENDS Integers, Sequences, FiniteSets, Bags, TLC

(***************************************************************************)
(* Bounds of the model                                                     *)
(***************************************************************************)
\* number of connection handles (socket ids) that can ever be opened
NumConns == 2
\* in-flight asynchronous handler continuations kept at one time
MaxTasks == 1
\* rows of the Notification table
MaxNotifications == 1
\* entries of the client's message list
MaxMessages == 3
\* events of one kind on the wire to the client
MaxInbox == 2
\* messageReaction handlers in flight at one time
MaxReactions == 2
\* calls of handleSendMessage
MaxSends == 2
\* unread messages counted per listed conversation
MaxUnread == 3
\* users listed for one emoji of one message by the client
MaxEmojiUsers == 3
\* calls of toggleFollow, and how many of them await their response at one time
MaxFollows == 3
MaxFollowCalls == 2

Conns == 1..NumConns
Users == {"u1", "u2"}
Convs == {"k1"}

\* JavaScript undefined / null, a missing Map entry, no socket
Undefined == "undefined"
None == 0

(***************************************************************************)
(* Room names.  A room name is a string; the personal room of user u is    *)
(* the string "user_" + u and a conversation room is the raw               *)
(* conversationId the client sent.  A name is modelled as the pair         *)
(* <<prefix, rest>> of the string, so that a client-supplied               *)
(* conversationId can spell a personal room.                               *)
(***************************************************************************)
UserRoom(u) == <<"user_", u>>
ConvRoom(k) == <<"", k>>
EmptyId == <<"", "">>
PersonalRooms == {UserRoom(u) : u \in Users}
ConvRooms == {ConvRoom(k) : k \in Convs}
RoomNames == PersonalRooms \cup ConvRooms
\* values a client can put in the conversationId field
ConversationIds == RoomNames \cup {EmptyId}
\* JavaScript truthiness of a conversationId string
Truthy(id) == id # EmptyId

(***************************************************************************)
(* Handshake tokens: none, one that jwt.verify rejects, or one signed for  *)
(* a user (identified with that user's id).                                *)
(***************************************************************************)
NoToken == "notoken"
BadToken == "badtoken"
Tokens == {NoToken, BadToken} \cup Users
AuthError == "Authentication error"

VARIABLES
  connState,       \* per handle: "new", "refused", "active", "closed"
  handshake,       \* per handle: the token its handshake carried
  userId,          \* per handle: socket.userId
  connectedUsers,  \* the Map connectedUsers: userId -> socket.id (None = no entry)
  rooms,           \* per handle: the rooms the adapter has it in
  tasks,           \* in-flight continuations of async handlers
  notifications,   \* rows of the Notification table
  inbound,         \* the inbound event the last step handled
  emitted,         \* the outbound events the last step emitted, in order
  roomsAtClose,    \* per handle: conversation rooms it was in when it disconnected
  reactionTasks,   \* the bag of messageReaction handlers in flight
  messageReaction, \* rows of the MessageReaction table, per (messageId, userId, emoji)
  script,          \* per key: the add / remove events that arrived for the key while
                   \* they followed add, remove, remove and no persistence call
                   \* failed, or OffCourse once they have left that course
  socket,          \* client: the socket of the messaging hub (None = none)
  selectedConversation,  \* client: React state selectedConversation
  listenerConversation,  \* client: selectedConversation as closed over by the socket listeners
  messages,        \* client: React state messages
  loading,         \* client: conversations whose loadMessages request is in flight
  inbox,           \* client: receiveMessage and messageDeleted events on the wire to the client
  messageReactions,  \* client: React state messageReactions
  reactionInbox,   \* client: messageReaction events on the wire to the client
  newMessage,      \* client: React state newMessage (the draft input)
  isUploading,     \* client: React state isUploading
  sending,         \* client: the handleSendMessage call awaiting its response
  lastSend,        \* client: the last handleSendMessage call and how it ended
  typingTimeoutRef,  \* client: the conversation id the pending typing timer will
                     \* send typing false for (UndefinedId = no timer pending)
  typingOn,        \* the conversation ids for which the last typing event the
                   \* client emitted said isTyping true
  conversations,   \* client: React state conversations, as a function from the
                   \* ids of the listed conversations to their entries
  followingUsers,  \* follow context: React state followingUsers
  followCounts,    \* follow context: React state followCounts, an object keyed
                   \* by user id
  processingUsers, \* follow context: React state processingUsers
  followCalls,     \* follow context: the toggleFollow calls awaiting
                   \* authAPI.followUser, with what each closed over
  followSeq,       \* follow context: the number of toggleFollow calls made
  followLog,       \* follow context: the finished toggleFollow calls, in the order
                   \* they finished, each with the way it ended
  followServer,    \* the follow relation as the backend holds it: whether the
                   \* user follows the target, and the target's follower count
  localStorage,    \* browser: the keys the application has stored
  pathname,        \* browser: window.location.pathname, a sequence of characters
  request,         \* api: the request in flight (after the request interceptor)
  settled          \* api: how the promise of the last request settled

reactionVars == <<reactionTasks, messageReaction, script>>
serverVars == <<connState, handshake, userId, connectedUsers, rooms, tasks,
                notifications, inbound, emitted, roomsAtClose, reactionVars>>
hubReactionVars == <<messageReactions, reactionInbox>>
sendVars == <<newMessage, isUploading, sending, lastSend>>
typingVars == <<typingTimeoutRef, typingOn>>
followVars == <<followingUsers, followCounts, processingUsers, followCalls, followSeq,
                followLog, followServer>>
apiVars == <<localStorage, pathname, request, settled>>
restVars == <<followVars, apiVars>>
appVars == <<conversations, restVars>>
hubVars == <<socket, selectedConversation, listenerConversation, messages, loading, inbox,
             hubReactionVars, sendVars, typingVars, conversations>>
clientVars == <<socket, selectedConversation, listenerConversation, messages,
                loading, inbox, hubReactionVars, sendVars, typingVars, appVars>>
vars == <<serverVars, clientVars>>

Keys == Users \cup {Undefined}

\* values of the React state selectedConversation: null, a regular
\* conversation, or the AI assistant's pseudo conversation
UndefinedId == <<>>
NoConversation == [id |-> UndefinedId, isAI |-> FALSE]
Regular(k) == [id |-> ConvRoom(k), isAI |-> FALSE]
AiConversation == [id |-> ConvRoom("ai-assistant"), isAI |-> TRUE]
Conversations == {Regular(k) : k \in Convs} \cup {AiConversation}
\* the user logged in at the modelled client, and the user of its peers
Me == "u1"
Peer == "u2"
NoEvent == [ev |-> "none", conn |-> None]

\* messages and emojis that reactions are given to, and the key of a row
\* of the MessageReaction table (its compound unique messageId_userId_emoji)
MessageIds == {"m1"}
Emojis == {"thumbsup"}
ReactionKey(messageId, u, emoji) == <<messageId, u, emoji>>
ReactionKeys == {ReactionKey(m, u, e) : m \in MessageIds, u \in Users, e \in Emojis}

\* no handleSendMessage call so far
NoSend == [n |-> 0, tempId |-> Undefined, content |-> "", conversationId |-> UndefinedId,
           id |-> Undefined, outcome |-> "none", intact |-> FALSE]

(***************************************************************************)
(* socket.io delivery primitives                                           *)
(***************************************************************************)
Live(c) == connState[c] = "active"
\* socket.to(room): members of the room except the emitting socket
\* socket.to(room) taken for io.to(room): the emitting socket is not left out
socketTo_WithSender(c, room) == {d \in Conns : Live(d) /\ room \in rooms[d]}

socketTo(c, room) == {d \in Conns : Live(d) /\ room \in rooms[d] /\ d # c}
\* io.emit in place of io.to(room): every connected socket
ioTo_Everyone(room) == {d \in Conns : Live(d)}

\* io.to(room): all members of the room
ioTo(room) == {d \in Conns : Live(d) /\ room \in rooms[d]}
\* socket.broadcast: every connected socket except the emitting one
socketBroadcast(c) == {d \in Conns : Live(d) /\ d # c}

(***************************************************************************)
(* io.use authentication middleware                                        *)
(***************************************************************************)
\* jwt.verify(token, SECRET_KEY): the decoded userId, or a throw
jwtVerify(token) == IF token \in Users THEN token ELSE "throw"

\* the catch branch calls next() without an error
authMiddleware_NoVerifyCatch(token) ==
  IF token = NoToken THEN AuthError
  ELSE IF jwtVerify(token) = "throw" THEN Undefined
  ELSE jwtVerify(token)

authMiddleware(token) ==
  IF token = NoToken THEN AuthError
  ELSE IF jwtVerify(token) = "throw" THEN AuthError
  ELSE jwtVerify(token)

\* membership kept per identity: a new socket takes over the rooms of the
\* user's other sockets
personalRoomJoin_ByIdentity(c, u) ==
  {UserRoom(u)} \cup UNION {rooms[d] : d \in {e \in Conns : Live(e) /\ userId[e] = u}}

\* socket.join(`user_${socket.userId}`) of the connection handler
personalRoomJoin(c, u) == {UserRoom(u)}

(***************************************************************************)
(* Handshake followed by the connection handler.  A rejected handshake     *)
(* never reaches the connection handler, so no event handler is registered *)
(* for it.  socket.io gives every connection a fresh id: handles are taken *)
(* in increasing order.                                                    *)
(***************************************************************************)
ConnectCore(c, token) ==
  /\ connState[c] = "new"
  /\ \A d \in Conns : d < c => connState[d] # "new"
  /\ handshake' = [handshake EXCEPT ![c] = token]
  /\ inbound' = [ev |-> "connect", conn |-> c]
  /\ emitted' = <<>>
  /\ IF authMiddleware(token) = AuthError
     THEN /\ connState' = [connState EXCEPT ![c] = "refused"]
          /\ UNCHANGED <<userId, connectedUsers, rooms>>
     ELSE /\ connState' = [connState EXCEPT ![c] = "active"]
          /\ userId' = [userId EXCEPT ![c] = authMiddleware(token)]
          /\ rooms' = [rooms EXCEPT ![c] = personalRoomJoin(c, authMiddleware(token))]
          /\ connectedUsers' = [connectedUsers EXCEPT ![authMiddleware(token)] = c]
  /\ UNCHANGED <<tasks, notifications, roomsAtClose, reactionVars>>

Connect(c, token) == ConnectCore(c, token) /\ UNCHANGED clientVars

(***************************************************************************)
(* joinConversation / leaveConversation: the conversationId is used as the *)
(* room name as it stands.                                                 *)
(***************************************************************************)
\* socket.join(room), socket.leave(room) on the set of rooms of a socket
socketJoin(rs, room) == rs \cup {room}
socketLeave(rs, room) == rs \ {room}

joinConversationCore(c, conversationId) ==
  /\ Live(c)
  /\ rooms' = [rooms EXCEPT ![c] = socketJoin(@, conversationId)]
  /\ inbound' = [ev |-> "joinConversation", conn |-> c, conversationId |-> conversationId]
  /\ emitted' = <<>>
  /\ UNCHANGED <<connState, handshake, userId, connectedUsers, tasks, notifications, roomsAtClose, reactionVars>>

joinConversation(c, conversationId) ==
  joinConversationCore(c, conversationId) /\ UNCHANGED clientVars

leaveConversationCore(c, conversationId) ==
  /\ Live(c)
  /\ rooms' = [rooms EXCEPT ![c] = socketLeave(@, conversationId)]
  /\ inbound' = [ev |-> "leaveConversation", conn |-> c, conversationId |-> conversationId]
  /\ emitted' = <<>>
  /\ UNCHANGED <<connState, handshake, userId, connectedUsers, tasks, notifications, roomsAtClose, reactionVars>>

leaveConversation(c, conversationId) ==
  leaveConversationCore(c, conversationId) /\ UNCHANGED clientVars

(***************************************************************************)
(* sendMessage.  The synchronous part emits receiveMessage twice           *)
(* (socket.to, then io.to) when conversationId is truthy, then, if the     *)
(* payload names a receiver different from the sender, starts the          *)
(* notification code and suspends at its first await.                      *)
(***************************************************************************)
Emission(ev, to, data) == [ev |-> ev, to |-> to, data |-> data]

receiveMessageEmits(c, messageData) ==
  IF Truthy(messageData.conversationId)
  THEN << Emission("receiveMessage", socketTo(c, messageData.conversationId), messageData),
          Emission("receiveMessage", ioTo(messageData.conversationId), messageData) >>
  ELSE <<>>

\* the test without its comparison of sender and receiver
needsNotification_AnyReceiver(messageData) ==
  messageData.receiverId # Undefined

needsNotification(messageData) ==
  /\ messageData.receiverId # Undefined
  /\ messageData.senderId # messageData.receiverId

\* the broadcast moved behind the awaited notification code
sendMessageCore_NotifyFirst(c, messageData) ==
  /\ Live(c)
  /\ inbound' = [ev |-> "sendMessage", conn |-> c, conversationId |-> messageData.conversationId]
  /\ emitted' = IF needsNotification(messageData) THEN <<>>
                ELSE receiveMessageEmits(c, messageData)
  /\ IF needsNotification(messageData)
     THEN /\ Len(tasks) < MaxTasks
          /\ notifications + Len(tasks) < MaxNotifications
          /\ tasks' = Append(tasks, [conn |-> c, data |-> messageData])
     ELSE UNCHANGED tasks
  /\ UNCHANGED <<connState, handshake, userId, connectedUsers, rooms, notifications, roomsAtClose, reactionVars>>

sendMessageCore(c, messageData) ==
  /\ Live(c)
  /\ inbound' = [ev |-> "sendMessage", conn |-> c, conversationId |-> messageData.conversationId]
  /\ emitted' = receiveMessageEmits(c, messageData)
  /\ IF needsNotification(messageData)
     THEN /\ Len(tasks) < MaxTasks
          /\ notifications + Len(tasks) < MaxNotifications
          /\ tasks' = Append(tasks, [conn |-> c, data |-> messageData])
     ELSE UNCHANGED tasks
  /\ UNCHANGED <<connState, handshake, userId, connectedUsers, rooms, notifications, roomsAtClose, reactionVars>>

sendMessage(c, messageData) ==
  sendMessageCore(c, messageData) /\ UNCHANGED clientVars

(***************************************************************************)
(* typing: relayed to the room named by the payload, the sender excepted.  *)
(***************************************************************************)
TypingPayloads(ids) == {[conversationId |-> k, isTyping |-> b] : k \in ids, b \in BOOLEAN}

\* the relay through io.to, which does not leave out the sender
typingCore_ToWholeRoom(c, data) ==
  /\ Live(c)
  /\ inbound' = [ev |-> "typing", conn |-> c, conversationId |-> data.conversationId]
  /\ emitted' = << Emission("userTyping", ioTo(data.conversationId),
                            [userId |-> userId[c], isTyping |-> data.isTyping]) >>
  /\ UNCHANGED <<connState, handshake, userId, connectedUsers, rooms, tasks,
                 notifications, roomsAtClose, reactionVars>>

typingCore(c, data) ==
  /\ Live(c)
  /\ inbound' = [ev |-> "typing", conn |-> c, conversationId |-> data.conversationId]
  /\ emitted' = << Emission("userTyping", socketTo(c, data.conversationId),
                            [userId |-> userId[c], isTyping |-> data.isTyping]) >>
  /\ UNCHANGED <<connState, handshake, userId, connectedUsers, rooms, tasks,
                 notifications, roomsAtClose, reactionVars>>

typing(c, data) == typingCore(c, data) /\ UNCHANGED clientVars

(***************************************************************************)
(* deleteMessage: a notice naming the message goes to the room named by    *)
(* the payload, the sender excepted.                                       *)
(***************************************************************************)
DeletePayloads(ids) ==
  {[messageId |-> m, conversationId |-> k] : m \in {"m1", "m2"}, k \in ids}

deleteMessageCore(c, data) ==
  /\ Live(c)
  /\ inbound' = [ev |-> "deleteMessage", conn |-> c, conversationId |-> data.conversationId]
  /\ emitted' = << Emission("messageDeleted", socketTo(c, data.conversationId),
                            [messageId |-> data.messageId]) >>
  /\ UNCHANGED <<connState, handshake, userId, connectedUsers, rooms, tasks,
                 notifications, roomsAtClose, reactionVars>>

(***************************************************************************)
(* Group events: each handler emits once per entry of the participant list *)
(* of the payload, to that identity's personal room through socket.to.     *)
(***************************************************************************)
Groups == {"g1"}
ParticipantLists == {<<>>, <<"u1">>, <<"u2">>, <<"u1", "u2">>}
GroupOf(g) == [id |-> g]

\* participantIds.forEach(participantId => socket.to(`user_${participantId}`).emit(ev, data))
forEachParticipant(c, participantIds, ev, data) ==
  [i \in 1..Len(participantIds) |->
     Emission(ev, socketTo(c, UserRoom(participantIds[i])), data)]

\* what every group handler does with the emissions of its body
groupRelay(c, ev, participantIds, out) ==
  /\ Live(c)
  /\ inbound' = [ev |-> ev, conn |-> c, participantIds |-> participantIds]
  /\ emitted' = out
  /\ UNCHANGED <<connState, handshake, userId, connectedUsers, rooms, tasks,
                 notifications, roomsAtClose, reactionVars>>

groupCreated(c, data) ==
  /\ groupRelay(c, "groupCreated", data.participantIds,
                forEachParticipant(c, data.participantIds, "newGroup", data.group))
  /\ UNCHANGED clientVars

groupUpdated(c, data) ==
  /\ groupRelay(c, "groupUpdated", data.participantIds,
                forEachParticipant(c, data.participantIds, "groupUpdate", data.group))
  /\ UNCHANGED clientVars

memberAdded(c, data) ==
  /\ groupRelay(c, "memberAdded", data.participantIds,
                forEachParticipant(c, data.participantIds \o <<data.newMemberId>>,
                                   "groupMemberAdded",
                                   [group |-> data.group, newMemberId |-> data.newMemberId]))
  /\ UNCHANGED clientVars

memberRemoved(c, data) ==
  /\ groupRelay(c, "memberRemoved", data.participantIds,
                forEachParticipant(c, data.participantIds, "groupMemberRemoved",
                                   [group |-> data.group,
                                    removedMemberId |-> data.removedMemberId])
                \o << Emission("removedFromGroup",
                               socketTo(c, UserRoom(data.removedMemberId)),
                               [group |-> data.group]) >>)
  /\ UNCHANGED clientVars

groupDeleted(c, data) ==
  /\ groupRelay(c, "groupDeleted", data.participantIds,
                forEachParticipant(c, data.participantIds, "groupDeleted",
                                   [groupId |-> data.groupId]))
  /\ UNCHANGED clientVars

adminRoleChanged(c, data) ==
  /\ groupRelay(c, "adminRoleChanged", data.participantIds,
                forEachParticipant(c, data.participantIds, "groupAdminChanged",
                                   [group |-> data.group, userId |-> data.userId,
                                    action |-> data.action]))
  /\ UNCHANGED clientVars

RemoveAt(s, i) == [j \in 1..(Len(s) - 1) |-> IF j < i THEN s[j] ELSE s[j + 1]]

(***************************************************************************)
(* Continuations of sendMessage's notification code.  A persistence call   *)
(* that never returns is a task that stays in tasks for ever.              *)
(***************************************************************************)
\* prisma.notification.create resolved: newNotification goes to the
\* receiver's personal room; the awaited prisma.$disconnect() that follows
\* has no further effect whether it resolves or throws
notificationCreated(i) ==
  /\ i \in DOMAIN tasks
  /\ notifications' = notifications + 1
  /\ inbound' = [ev |-> "notificationCreated", conn |-> tasks[i].conn]
  /\ emitted' = << Emission("newNotification",
                            socketTo(tasks[i].conn, UserRoom(tasks[i].data.receiverId)),
                            tasks[i].data) >>
  /\ tasks' = RemoveAt(tasks, i)
  /\ UNCHANGED <<connState, handshake, userId, connectedUsers, rooms, roomsAtClose, reactionVars>>
  /\ UNCHANGED clientVars

\* the dynamic import or prisma.notification.create threw: caught and logged
notificationFailed(i) ==
  /\ i \in DOMAIN tasks
  /\ inbound' = [ev |-> "notificationFailed", conn |-> tasks[i].conn]
  /\ emitted' = <<>>
  /\ tasks' = RemoveAt(tasks, i)
  /\ UNCHANGED <<connState, handshake, userId, connectedUsers, rooms, notifications, roomsAtClose, reactionVars>>
  /\ UNCHANGED clientVars

(***************************************************************************)
(* disconnect.  socket.io has already taken the socket out of all its      *)
(* rooms when the handler runs.                                            *)
(***************************************************************************)
disconnectCore(c) ==
  /\ Live(c)
  /\ connState' = [connState EXCEPT ![c] = "closed"]
  /\ rooms' = [rooms EXCEPT ![c] = {}]
  /\ roomsAtClose' = [roomsAtClose EXCEPT ![c] = rooms[c] \cap ConvRooms]
  /\ connectedUsers' = [connectedUsers EXCEPT ![userId[c]] = None]
  /\ inbound' = [ev |-> "disconnect", conn |-> c]
  /\ emitted' = << Emission("userStatusUpdate",
                            socketBroadcast(c),
                            [userId |-> userId[c], status |-> "offline"]) >>
  /\ UNCHANGED <<handshake, userId, tasks, notifications, reactionVars>>

disconnect(c) == disconnectCore(c) /\ UNCHANGED clientVars

getReceiverSocketId(u) == connectedUsers[u]

(***************************************************************************)
(* messageReaction.  The handler suspends at its first await (the dynamic  *)
(* import); its persistence call runs on a PrismaClient of its own, so the *)
(* calls of handlers in flight reach the database in any order.  After the *)
(* call has settled the handler resumes and broadcasts.                    *)
(***************************************************************************)
\* the action field of a payload: 'add', 'remove', or anything else
ReactionActions == {"add", "remove", Undefined}

ReactionPayloads(actions, ids) ==
  {[messageId |-> m, emoji |-> e, action |-> a, conversationId |-> k] :
     m \in MessageIds, e \in Emojis, a \in actions, k \in ids}

\* a handler in flight: the connection it runs on, its payload, and its
\* persistence code: "pending", "resolved" or "rejected"
ReactionTask(c, data, call) == [conn |-> c, data |-> data, call |-> call]

\* the course add, remove, remove, and the progress along it after one
\* more event with the given action has arrived
Course == <<"add", "remove", "remove">>
OffCourse == <<"off">>
Followed(progress, action) ==
  IF action \notin {"add", "remove"} THEN progress
  ELSE IF progress = OffCourse \/ Len(progress) = Len(Course) THEN OffCourse
  ELSE IF action = Course[Len(progress) + 1] THEN Append(progress, action)
  ELSE OffCourse

\* the key a handler on connection c works on
KeyOf(c, data) == ReactionKey(data.messageId, userId[c], data.emoji)

\* create in place of upsert: a row is added whether or not one exists
upsert_Create(table, key) == [table EXCEPT ![key] = @ + 1]

\* prisma.messageReaction.upsert({where: {messageId_userId_emoji}, update: {}, create})
upsert(table, key) ==
  IF table[key] > 0 THEN table ELSE [table EXCEPT ![key] = 1]

\* prisma.messageReaction.deleteMany({where: {messageId, userId, emoji}})
deleteMany(table, key) == [table EXCEPT ![key] = 0]

\* the broadcast emitted before the persistence code instead of after it
messageReactionCore_BroadcastFirst(c, data) ==
  /\ Live(c)
  /\ BagCardinality(reactionTasks) < MaxReactions
  /\ reactionTasks' = reactionTasks (+) SetToBag({ReactionTask(c, data, "pending")})
  /\ script' = [script EXCEPT ![KeyOf(c, data)] = Followed(@, data.action)]
  /\ inbound' = [ev |-> "messageReaction", conn |-> c, action |-> data.action,
                 key |-> KeyOf(c, data)]
  /\ emitted' = << Emission("messageReaction", ioTo(data.conversationId),
                            [messageId |-> data.messageId, emoji |-> data.emoji,
                             action |-> data.action, userId |-> userId[c]]) >>
  /\ UNCHANGED <<connState, handshake, userId, connectedUsers, rooms, tasks,
                 notifications, roomsAtClose, messageReaction>>

\* the handler up to its first await
messageReactionCore(c, data) ==
  /\ Live(c)
  /\ BagCardinality(reactionTasks) < MaxReactions
  /\ reactionTasks' = reactionTasks (+) SetToBag({ReactionTask(c, data, "pending")})
  /\ script' = [script EXCEPT ![KeyOf(c, data)] = Followed(@, data.action)]
  /\ inbound' = [ev |-> "messageReaction", conn |-> c, action |-> data.action,
                 key |-> KeyOf(c, data)]
  /\ emitted' = <<>>
  /\ UNCHANGED <<connState, handshake, userId, connectedUsers, rooms, tasks,
                 notifications, roomsAtClose, messageReaction>>

messageReactionEvent(c, data) ==
  messageReactionCore(c, data) /\ UNCHANGED clientVars

\* the persistence call of the handler t took effect and resolved
reactionPersisted(t) ==
  /\ BagIn(t, reactionTasks)
  /\ t.call = "pending"
  /\ messageReaction' =
       IF t.data.action = "add" THEN upsert(messageReaction, KeyOf(t.conn, t.data))
       ELSE IF t.data.action = "remove" THEN deleteMany(messageReaction, KeyOf(t.conn, t.data))
       ELSE messageReaction
  /\ inbound' = [ev |-> "reactionPersisted", conn |-> t.conn, action |-> t.data.action,
                 key |-> KeyOf(t.conn, t.data)]
  /\ reactionTasks' = (reactionTasks (-) SetToBag({t}))
                         (+) SetToBag({ReactionTask(t.conn, t.data, "resolved")})
  /\ emitted' = <<>>
  /\ UNCHANGED <<connState, handshake, userId, connectedUsers, rooms, tasks,
                 notifications, roomsAtClose, script>>
  /\ UNCHANGED clientVars

\* the error of the persistence call closing the connection of the handler
reactionPersistFailed_Disconnects(t) ==
  /\ BagIn(t, reactionTasks)
  /\ t.call = "pending"
  /\ script' = [script EXCEPT ![KeyOf(t.conn, t.data)] = OffCourse]
  /\ inbound' = [ev |-> "reactionPersistFailed", conn |-> t.conn, action |-> t.data.action,
                 key |-> KeyOf(t.conn, t.data)]
  /\ reactionTasks' = (reactionTasks (-) SetToBag({t}))
                         (+) SetToBag({ReactionTask(t.conn, t.data, "rejected")})
  /\ emitted' = <<>>
  /\ connState' = [connState EXCEPT ![t.conn] = "closed"]
  /\ UNCHANGED <<handshake, userId, connectedUsers, rooms, tasks,
                 notifications, roomsAtClose, messageReaction>>
  /\ UNCHANGED clientVars

\* the import or the persistence call of the handler t threw: caught and logged
reactionPersistFailed(t) ==
  /\ BagIn(t, reactionTasks)
  /\ t.call = "pending"
  /\ script' = [script EXCEPT ![KeyOf(t.conn, t.data)] = OffCourse]
  /\ inbound' = [ev |-> "reactionPersistFailed", conn |-> t.conn, action |-> t.data.action,
                 key |-> KeyOf(t.conn, t.data)]
  /\ reactionTasks' = (reactionTasks (-) SetToBag({t}))
                         (+) SetToBag({ReactionTask(t.conn, t.data, "rejected")})
  /\ emitted' = <<>>
  /\ UNCHANGED <<connState, handshake, userId, connectedUsers, rooms, tasks,
                 notifications, roomsAtClose, messageReaction>>
  /\ UNCHANGED clientVars

\* the broadcast naming the user the client's payload names
reactionPayload_ClientUserId(c, data) ==
  [messageId |-> data.messageId, emoji |-> data.emoji,
   action |-> data.action, userId |-> data.userId]

\* the payload of the broadcast of a handler on connection c
reactionPayload(c, data) ==
  [messageId |-> data.messageId, emoji |-> data.emoji,
   action |-> data.action, userId |-> userId[c]]

\* the handler t resumes after its try / catch: io.to(conversationId).emit;
\* the event goes on the wire to the client if its socket is in the room
reactionBroadcast(t) ==
  /\ BagIn(t, reactionTasks)
  /\ t.call # "pending"
  /\ inbound' = [ev |-> "reactionBroadcast", conn |-> t.conn, action |-> t.data.action,
                 key |-> KeyOf(t.conn, t.data), call |-> t.call]
  /\ emitted' = << Emission("messageReaction", ioTo(t.data.conversationId),
                            reactionPayload(t.conn, t.data)) >>
  /\ IF socket # None /\ socket \in ioTo(t.data.conversationId)
     THEN /\ Len(reactionInbox) < MaxInbox
          /\ reactionInbox' = Append(reactionInbox, reactionPayload(t.conn, t.data))
     ELSE UNCHANGED reactionInbox
  /\ reactionTasks' = reactionTasks (-) SetToBag({t})
  /\ UNCHANGED <<connState, handshake, userId, connectedUsers, rooms, tasks,
                 notifications, roomsAtClose, messageReaction, script>>
  /\ UNCHANGED <<socket, selectedConversation, listenerConversation, messages, loading, appVars,
                 inbox, messageReactions, sendVars>>
  /\ UNCHANGED typingVars

(***************************************************************************)
(* An event whose payload cannot be destructured or iterated (no payload   *)
(* object; a group event without participantIds).  The handler throws a    *)
(* TypeError; neither the handler nor socket.io nor the process            *)
(* (unnamed/part_000 installs no uncaughtException handler) catches it, so *)
(* the Node.js process exits: every connection ends without its disconnect *)
(* handler, the in-memory state and the suspended handlers are gone, and   *)
(* nothing connects any more.                                              *)
(***************************************************************************)
MalformedEvents ==
  {"joinConversation", "leaveConversation", "groupCreated", "groupUpdated",
   "memberAdded", "memberRemoved", "groupDeleted", "adminRoleChanged"}

malformedEvent(c, ev) ==
  /\ Live(c)
  /\ connState' = [d \in Conns |-> IF connState[d] = "refused" THEN "refused" ELSE "down"]
  /\ rooms' = [d \in Conns |-> {}]
  /\ connectedUsers' = [u \in Keys |-> None]
  /\ tasks' = <<>>
  /\ reactionTasks' = EmptyBag
  /\ inbound' = [ev |-> ev, conn |-> c, malformed |-> TRUE]
  /\ emitted' = <<>>
  /\ UNCHANGED <<handshake, userId, notifications, roomsAtClose, messageReaction,
                 script>>
  /\ UNCHANGED clientVars

\* payloads of sendMessage the server model is driven with
Message(id, message, senderId, receiverId, conversationId, createdAt) ==
  [id |-> id, tempId |-> Undefined, message |-> message, senderId |-> senderId,
   receiverId |-> receiverId, conversationId |-> conversationId, createdAt |-> createdAt]

ServerPayloads ==
  {Message("m1", "hi", s, r, k, 0) :
     s \in Users, r \in {"u2", Undefined}, k \in ConversationIds}

Init ==
  /\ connState = [c \in Conns |-> "new"]
  /\ handshake = [c \in Conns |-> NoToken]
  /\ userId = [c \in Conns |-> Undefined]
  /\ connectedUsers = [u \in Keys |-> None]
  /\ rooms = [c \in Conns |-> {}]
  /\ tasks = <<>>
  /\ notifications = 0
  /\ inbound = NoEvent
  /\ emitted = <<>>
  /\ roomsAtClose = [c \in Conns |-> {}]
  /\ socket = None
  /\ selectedConversation = NoConversation
  /\ listenerConversation = NoConversation
  /\ messages = <<>>
  /\ loading = {}
  /\ inbox = <<>>
  /\ reactionTasks = EmptyBag
  /\ messageReaction = [key \in ReactionKeys |-> 0]
  /\ script = [key \in ReactionKeys |-> <<>>]
  /\ messageReactions = [m \in MessageIds |-> [e \in Emojis |-> <<>>]]
  /\ reactionInbox = <<>>
  /\ newMessage = ""
  /\ isUploading = FALSE
  /\ typingTimeoutRef = UndefinedId
  /\ typingOn = {}
  /\ conversations = <<>>
  /\ followingUsers = {}
  /\ followCounts = <<>>
  /\ processingUsers = {}
  /\ followCalls = <<>>
  /\ followSeq = 0
  /\ followLog = <<>>
  /\ localStorage = {"token", "user"}
  /\ pathname = <<"/">>
  /\ request = [url |-> <<>>, Authorization |-> FALSE]
  /\ settled = [state |-> "none", status |-> 0, url |-> <<>>]
  /\ followServer = [following |-> FALSE, followers |-> 0]
  /\ sending = NoSend
  /\ lastSend = NoSend

(***************************************************************************)
(* The server driven by clients whose handshakes carry a token of tokens,  *)
(* whose joinConversation / leaveConversation events carry an id of ids    *)
(* and whose sendMessage events carry a payload of payloads.               *)
(***************************************************************************)
ServerNext(tokens, ids, payloads) ==
  \/ \E c \in Conns, token \in tokens : Connect(c, token)
  \/ \E c \in Conns, id \in ids : joinConversation(c, id)
  \/ \E c \in Conns, id \in ids : leaveConversation(c, id)
  \/ \E c \in Conns, messageData \in payloads : sendMessage(c, messageData)
  \/ \E i \in 1..MaxTasks : notificationCreated(i)
  \/ \E i \in 1..MaxTasks : notificationFailed(i)
  \/ \E c \in Conns : disconnect(c)

Next ==
  \/ ServerNext(Tokens, RoomNames, ServerPayloads)
  \/ \E c \in Conns, ev \in MalformedEvents : malformedEvent(c, ev)

Spec == Init /\ [][Next]_vars

\* clients that join and leave conversation rooms only
ConvPayloads ==
  {Message("m1", "hi", s, r, k, 0) :
     s \in {"u1"}, r \in {"u2", Undefined}, k \in ConvRooms \cup {EmptyId}}

ConvNext == ServerNext(Tokens, ConvRooms, ConvPayloads)

ConvSpec == Init /\ [][ConvNext]_vars

(***************************************************************************)
(* The server with its two handlers that persist: messageReaction, and     *)
(* sendMessage with its notification.                                      *)
(***************************************************************************)
NotifyPayloads == {Message("m1", "hi", "u1", "u2", ConvRoom(k), 0) : k \in Convs}

PersistNext ==
  \/ \E c \in Conns, token \in {"u1"} : Connect(c, token)
  \/ \E c \in Conns, data \in ReactionPayloads({"add", "remove"}, ConvRooms) :
       messageReactionEvent(c, data)
  \/ \E t \in BagToSet(reactionTasks) : reactionPersisted(t)
  \/ \E t \in BagToSet(reactionTasks) : reactionPersistFailed(t)
  \/ \E t \in BagToSet(reactionTasks) : reactionBroadcast(t)
  \/ \E c \in Conns, messageData \in NotifyPayloads : sendMessage(c, messageData)
  \/ \E i \in 1..MaxTasks : notificationCreated(i)
  \/ \E i \in 1..MaxTasks : notificationFailed(i)

PersistSpec == Init /\ [][PersistNext]_vars

(***************************************************************************)
(* The server driven by sendMessage events with and without a receiver,    *)
(* the receiver being the sender or someone else.                          *)
(***************************************************************************)
ReceiverPayloads ==
  {Message("m1", "hi", s, r, k, 0) :
     s \in Users, r \in Users \cup {Undefined}, k \in ConvRooms \cup {EmptyId}}

NotificationNext ==
  \/ \E c \in Conns, token \in Users : Connect(c, token)
  \/ \E c \in Conns, messageData \in ReceiverPayloads : sendMessage(c, messageData)
  \/ \E i \in 1..MaxTasks : notificationCreated(i)
  \/ \E i \in 1..MaxTasks : notificationFailed(i)

NotificationSpec == Init /\ [][NotificationNext]_vars

(***************************************************************************)
(* The server driven by members of conversation rooms whose                *)
(* messageReaction payloads carry a userId field naming user u2, whoever   *)
(* sends them.                                                             *)
(***************************************************************************)
NamedUserPayloads ==
  {data @@ [userId |-> u] : data \in ReactionPayloads({"add"}, ConvRooms), u \in {"u2"}}

RoomReactionNext ==
  \/ \E c \in Conns, token \in Users : Connect(c, token)
  \/ \E c \in Conns, id \in ConvRooms : joinConversation(c, id)
  \/ \E c \in Conns, data \in NamedUserPayloads : messageReactionEvent(c, data)
  \/ \E t \in BagToSet(reactionTasks) : reactionPersisted(t)
  \/ \E t \in BagToSet(reactionTasks) : reactionPersistFailed(t)
  \/ \E t \in BagToSet(reactionTasks) : reactionBroadcast(t)

RoomReactionSpec == Init /\ [][RoomReactionNext]_vars

(***************************************************************************)
(* The server driven by connections that join and leave conversation rooms *)
(* and send typing events naming any room.                                 *)
(***************************************************************************)
TypingRelayNext ==
  \/ \E c \in Conns, token \in Users : Connect(c, token)
  \/ \E c \in Conns, id \in ConvRooms : joinConversation(c, id)
  \/ \E c \in Conns, id \in ConvRooms : leaveConversation(c, id)
  \/ \E c \in Conns, data \in TypingPayloads(RoomNames) : typing(c, data)
  \/ \E c \in Conns : disconnect(c)

TypingRelaySpec == Init /\ [][TypingRelayNext]_vars

(***************************************************************************)
(* The server driven by connections that join and leave rooms of any name  *)
(* and send the six group events.                                          *)
(***************************************************************************)
GroupPayloads ==
  {[group |-> GroupOf(g), groupId |-> g, participantIds |-> ps,
    newMemberId |-> u, removedMemberId |-> u, userId |-> u, action |-> "promote"] :
     g \in Groups, ps \in ParticipantLists, u \in Users}

GroupNext ==
  \/ \E c \in Conns, token \in Users : Connect(c, token)
  \/ \E c \in Conns, id \in RoomNames : joinConversation(c, id)
  \/ \E c \in Conns, id \in RoomNames : leaveConversation(c, id)
  \/ \E c \in Conns, data \in GroupPayloads : groupCreated(c, data)
  \/ \E c \in Conns, data \in GroupPayloads : groupUpdated(c, data)
  \/ \E c \in Conns, data \in GroupPayloads : memberAdded(c, data)
  \/ \E c \in Conns, data \in GroupPayloads : memberRemoved(c, data)
  \/ \E c \in Conns, data \in GroupPayloads : groupDeleted(c, data)
  \/ \E c \in Conns, data \in GroupPayloads : adminRoleChanged(c, data)
  \/ \E c \in Conns : disconnect(c)

GroupSpec == Init /\ [][GroupNext]_vars

(***************************************************************************)
(* Client: the messaging hub (UltimateMessagingHub) on top of the socket   *)
(* of SocketProvider.                                                      *)
(***************************************************************************)
\* the dedup test of handleNewMessage without the comparison of ids
isDuplicate_NoIdCheck(prev, message) ==
  \E i \in DOMAIN prev :
    \/ (prev[i].tempId # Undefined /\ prev[i].tempId = message.tempId)
    \/ /\ prev[i].message = message.message
       /\ prev[i].senderId = message.senderId
       /\ (IF prev[i].createdAt >= message.createdAt
           THEN prev[i].createdAt - message.createdAt
           ELSE message.createdAt - prev[i].createdAt) < 5000

\* prev.find(m => m.id === message.id || (m.tempId && m.tempId === message.tempId)
\*   || (m.message === message.message && m.senderId === message.senderId
\*       && Math.abs(new Date(m.createdAt) - new Date(message.createdAt)) < 5000))
isDuplicate(prev, message) ==
  \E i \in DOMAIN prev :
    \/ prev[i].id = message.id
    \/ (prev[i].tempId # Undefined /\ prev[i].tempId = message.tempId)
    \/ /\ prev[i].message = message.message
       /\ prev[i].senderId = message.senderId
       /\ (IF prev[i].createdAt >= message.createdAt
           THEN prev[i].createdAt - message.createdAt
           ELSE message.createdAt - prev[i].createdAt) < 5000

\* handleNewMessage as it acts on messages; selected is the
\* selectedConversation the handler closed over
handleNewMessage(selected, prev, message) ==
  IF selected.isAI THEN prev
  ELSE IF message.conversationId = selected.id /\ ~selected.isAI
       THEN IF isDuplicate(prev, message) THEN prev ELSE Append(prev, message)
       ELSE prev

\* an entry of the conversation list as GET /conversations returns it
ListedConversation == [unreadCount |-> 0, lastMessage |-> Undefined, updatedAt |-> 0]

\* handleNewMessage as it acts on conversations: prev.map over the list
handleNewMessageList(selected, prev, message) ==
  IF selected.isAI THEN prev
  ELSE [id \in DOMAIN prev |->
          IF id # message.conversationId THEN prev[id]
          ELSE IF message.conversationId = selected.id /\ ~selected.isAI
               THEN [prev[id] EXCEPT !.lastMessage = message.id,
                                     !.updatedAt = message.createdAt]
               ELSE [prev[id] EXCEPT !.lastMessage = message.id,
                                     !.updatedAt = message.createdAt,
                                     !.unreadCount = @ + 1]]

\* socket.emit through the helpers of the SocketContext value: dropped when
\* there is no socket
contextEmit(ev, conversationId) ==
  IF socket # None THEN << [ev |-> ev, conversationId |-> conversationId] >> ELSE <<>>

\* the rooms of a socket after the server has handled the joinConversation
\* and leaveConversation events evs, in order
RECURSIVE RoomsAfter(_, _)
RoomsAfter(rs, evs) ==
  IF evs = <<>> THEN rs
  ELSE RoomsAfter(IF Head(evs).ev = "joinConversation"
                  THEN socketJoin(rs, Head(evs).conversationId)
                  ELSE socketLeave(rs, Head(evs).conversationId),
                  Tail(evs))

\* the server handles the events evs that the client emitted on its socket;
\* they travel in order on one connection and are handled here in one step
serverHandles(evs) ==
  IF evs = <<>> THEN UNCHANGED serverVars
  ELSE /\ rooms' = [rooms EXCEPT ![socket] = RoomsAfter(@, evs)]
       /\ inbound' = [ev |-> evs[Len(evs)].ev, conn |-> socket,
                      conversationId |-> evs[Len(evs)].conversationId]
       /\ emitted' = <<>>
       /\ UNCHANGED <<connState, handshake, userId, connectedUsers, tasks,
                      notifications, roomsAtClose, reactionVars>>

\* SocketProvider's effect creates a socket with the user's token; the hub's
\* listener effect (deps [socket, user]) then re-registers its listeners,
\* which close over the selectedConversation of that render.  What was on
\* the wire to the previous socket is lost with it.
socketProviderEffect(c) ==
  /\ ConnectCore(c, Me)
  /\ socket' = c
  /\ listenerConversation' = selectedConversation
  /\ inbox' = <<>>
  /\ reactionInbox' = <<>>
  /\ UNCHANGED <<selectedConversation, messages, loading, appVars, messageReactions, sendVars>>
  /\ UNCHANGED typingVars

\* the auto-join effect of the hub
autoJoinEffect ==
  /\ selectedConversation.id # UndefinedId
  /\ socket # None
  /\ serverHandles(contextEmit("joinConversation", selectedConversation.id))
  /\ UNCHANGED clientVars

handleConversationSelect(conversation) ==
  /\ LET leave == IF selectedConversation.id # UndefinedId /\ ~selectedConversation.isAI
                  THEN contextEmit("leaveConversation", selectedConversation.id)
                  ELSE <<>>
         join == IF conversation.isAI THEN <<>>
                 ELSE contextEmit("joinConversation", conversation.id)
     IN serverHandles(leave \o join)
  /\ selectedConversation' = conversation
  /\ messages' = <<>>
  /\ loading' = IF conversation.isAI THEN loading ELSE loading \cup {conversation.id}
  /\ UNCHANGED appVars
  /\ lastSend' = [lastSend EXCEPT !.intact = FALSE]
  /\ UNCHANGED <<socket, listenerConversation, inbox, hubReactionVars,
                 newMessage, isUploading, sending>>
  /\ UNCHANGED typingVars

\* what GET /conversation/:id/messages can return for conversation k: rows
\* of the Message table, whose ids are its primary key
StoredMessages(k) ==
  { <<>>, << Message("m1", "hi", Peer, Undefined, k, 0) >> }

\* the response of loadMessages arrives: the loaded list on success, the
\* empty list on a failed response or a thrown request
loadMessagesDone(k, loadedMessages) ==
  /\ k \in loading
  /\ loading' = loading \ {k}
  /\ UNCHANGED appVars
  /\ messages' = loadedMessages
  /\ lastSend' = [lastSend EXCEPT !.intact = FALSE]
  /\ UNCHANGED serverVars
  /\ UNCHANGED <<socket, selectedConversation, listenerConversation, inbox,
                 hubReactionVars, newMessage, isUploading, sending>>
  /\ UNCHANGED typingVars

\* the payloads of the emissions em that reach connection d, in order
DeliveredTo(em, d) ==
  LET reaches(e) == d \in e.to
      hits == SelectSeq(em, reaches)
  IN [i \in 1..Len(hits) |-> hits[i].data]

\* the events on the wire to the client arrive in the order of emission
\* whatever their names; a messageDeleted notice is told from the message
\* of a receiveMessage event by its fields
IsDeletion(data) == DOMAIN data = {"messageId"}

\* another connection sends a message; the copies the server emits to the
\* client's socket go on the wire to the client
peerSendMessage(c, messageData) ==
  /\ c # socket
  /\ sendMessageCore(c, messageData)
  /\ Len(inbox) + Len(DeliveredTo(emitted', socket)) <= MaxInbox
  /\ inbox' = inbox \o DeliveredTo(emitted', socket)
  /\ UNCHANGED <<socket, selectedConversation, listenerConversation, messages, loading, appVars,
                 hubReactionVars, sendVars>>
  /\ UNCHANGED typingVars

\* a receiveMessage event arrives: handleReceiveMessage -> handleNewMessage
receiveMessage ==
  /\ inbox # <<>>
  /\ ~IsDeletion(Head(inbox))
  /\ Len(messages) < MaxMessages
  /\ \A id \in DOMAIN conversations : conversations[id].unreadCount < MaxUnread
  /\ messages' = handleNewMessage(listenerConversation, messages, Head(inbox))
  /\ conversations' = handleNewMessageList(listenerConversation, conversations, Head(inbox))
  /\ UNCHANGED restVars
  /\ inbox' = Tail(inbox)
  /\ UNCHANGED serverVars
  /\ UNCHANGED <<socket, selectedConversation, listenerConversation, loading,
                 hubReactionVars, sendVars>>
  /\ UNCHANGED typingVars

peerConnect(c) == Connect(c, Peer)

\* the server notices the end of a connection other than the client's
\* current socket (a peer's, or a socket the client has replaced)
otherDisconnect(c) == c # socket /\ disconnect(c)

\* messages of group conversations (no receiverId) as peers send them
ClientPayloads ==
  {Message(id, "hi", s, Undefined, k, t) :
     id \in {"m1", "m2"}, s \in {Peer}, k \in ConvRooms, t \in {0, 6000}}

ClientNext ==
  \/ \E c \in Conns : socketProviderEffect(c)
  \/ autoJoinEffect
  \/ \E conversation \in Conversations : handleConversationSelect(conversation)
  \/ \E k \in ConvRooms : \E loadedMessages \in StoredMessages(k) : loadMessagesDone(k, loadedMessages)
  \/ \E c \in Conns : peerConnect(c)
  \/ \E c \in Conns, messageData \in ClientPayloads : peerSendMessage(c, messageData)
  \/ \E c \in Conns : otherDisconnect(c)
  \/ receiveMessage

ClientSpec == Init /\ [][ClientNext]_vars

(***************************************************************************)
(* Client: sending a message (handleSendMessage).  The input and the send  *)
(* button are disabled while isUploading, so one call is in flight at a    *)
(* time; the calls modelled are those without a file, in a regular         *)
(* conversation (in the AI conversation the handler works on aiMessages).  *)
(***************************************************************************)
Texts == {"hi"}

\* Date.now().toString() at the n-th call; calls are an HTTP round trip apart
DateNow(n) == ToString(n)

\* the id the Message table gives the message of the n-th call ("m1" is
\* the stored message of StoredMessages)
ServerId(n) == "m" \o ToString(n + 1)

optimisticMessage(tempId, messageContent, conversationId) ==
  [id |-> tempId, tempId |-> Undefined, message |-> Undefined,
   content |-> messageContent, senderId |-> Me, conversationId |-> conversationId,
   createdAt |-> 0, isOptimistic |-> TRUE]

\* response.data.data of POST /message/conversation/:id/send
sendToConversationResponse(call) ==
  Message(ServerId(call.n), call.content, Me, Undefined, call.conversationId, 0)

\* the replacement looks for the tempId in the field tempId, which no
\* optimistic entry has
replaceOptimistic_ByTempIdField(prev, tempId, data) ==
  [i \in DOMAIN prev |->
     IF prev[i].tempId = tempId THEN [isOptimistic |-> FALSE] @@ data ELSE prev[i]]

\* prev.map(msg => msg.id === tempId ? {...response.data.data, isOptimistic: false} : msg)
replaceOptimistic(prev, tempId, data) ==
  [i \in DOMAIN prev |->
     IF prev[i].id = tempId THEN [isOptimistic |-> FALSE] @@ data ELSE prev[i]]

\* prev.filter(msg => msg.id !== tempId)
removeOptimistic(prev, tempId) ==
  LET keep(msg) == msg.id # tempId IN SelectSeq(prev, keep)

\* onChange of the message input as it acts on the draft; the typing
\* indication it also gives acts on the typing state only and is part of
\* inputChange
setNewMessage(text) ==
  /\ selectedConversation # NoConversation
  /\ ~isUploading
  /\ newMessage' = text
  /\ UNCHANGED serverVars
  /\ UNCHANGED <<socket, selectedConversation, listenerConversation, messages, loading, appVars,
                 inbox, hubReactionVars, isUploading, sending, lastSend>>
  /\ UNCHANGED typingVars

\* handleSendMessage up to its await of messageAPI.sendToConversation
handleSendMessage ==
  /\ selectedConversation # NoConversation
  /\ ~selectedConversation.isAI
  /\ newMessage # ""
  /\ ~isUploading
  /\ lastSend.n < MaxSends
  /\ Len(messages) < MaxMessages
  /\ LET tempId == DateNow(lastSend.n + 1)
     IN /\ messages' = Append(messages,
                              optimisticMessage(tempId, newMessage, selectedConversation.id))
        /\ sending' = [n |-> lastSend.n + 1, tempId |-> tempId, content |-> newMessage,
                       conversationId |-> selectedConversation.id]
        /\ lastSend' = [n |-> lastSend.n + 1, tempId |-> tempId, content |-> newMessage,
                        conversationId |-> selectedConversation.id, id |-> Undefined,
                        outcome |-> "pending", intact |-> TRUE]
  /\ newMessage' = ""
  /\ isUploading' = TRUE
  /\ UNCHANGED serverVars
  /\ UNCHANGED <<socket, selectedConversation, listenerConversation, loading, appVars, inbox,
                 hubReactionVars>>
  /\ UNCHANGED typingVars

\* the response arrived with success true: the message goes out on the
\* socket (to a group: receiverId null), where the server handles it, and
\* the optimistic entry is replaced; finally isUploading is reset
sendSucceeded ==
  /\ sending # NoSend
  /\ LET data == sendToConversationResponse(sending)
     IN /\ IF socket # None
           THEN /\ sendMessageCore(socket, data)
                /\ Len(inbox) + Len(DeliveredTo(emitted', socket)) <= MaxInbox
                /\ inbox' = inbox \o DeliveredTo(emitted', socket)
           ELSE UNCHANGED <<serverVars, inbox>>
        /\ messages' = replaceOptimistic(messages, sending.tempId, data)
        /\ lastSend' = [lastSend EXCEPT !.outcome = "success", !.id = data.id]
  /\ isUploading' = FALSE
  /\ sending' = NoSend
  /\ UNCHANGED <<socket, selectedConversation, listenerConversation, loading, appVars,
                 hubReactionVars, newMessage>>
  /\ UNCHANGED typingVars

\* the response arrived with success false: logged; finally isUploading is reset
sendUnsuccessful ==
  /\ sending # NoSend
  /\ lastSend' = [lastSend EXCEPT !.outcome = "unsuccessful"]
  /\ isUploading' = FALSE
  /\ sending' = NoSend
  /\ UNCHANGED serverVars
  /\ UNCHANGED <<socket, selectedConversation, listenerConversation, messages, loading, appVars,
                 inbox, hubReactionVars, newMessage>>
  /\ UNCHANGED typingVars

\* the request threw: the catch removes the optimistic entry and restores
\* the input; finally isUploading is reset
sendThrew ==
  /\ sending # NoSend
  /\ messages' = removeOptimistic(messages, sending.tempId)
  /\ newMessage' = sending.content
  /\ lastSend' = [lastSend EXCEPT !.outcome = "threw"]
  /\ isUploading' = FALSE
  /\ sending' = NoSend
  /\ UNCHANGED serverVars
  /\ UNCHANGED <<socket, selectedConversation, listenerConversation, loading, appVars, inbox,
                 hubReactionVars>>
  /\ UNCHANGED typingVars

(***************************************************************************)
(* Client: reactions arriving from the socket                              *)
(***************************************************************************)
\* currentEmojiUsers.includes(userId)
includes(users, u) == \E i \in DOMAIN users : users[i] = u

\* currentEmojiUsers.filter(id => id !== userId)
without(users, u) == LET keep(id) == id # u IN SelectSeq(users, keep)

\* the add branch without its test for the user being present
handleMessageReactionFromSocket_AddUnchecked(prev, data) ==
  LET currentEmojiUsers == prev[data.messageId][data.emoji]
      updatedEmojiUsers ==
        IF data.action = "add" THEN Append(currentEmojiUsers, data.userId)
        ELSE IF data.action = "remove" THEN without(currentEmojiUsers, data.userId)
        ELSE IF includes(currentEmojiUsers, data.userId)
             THEN without(currentEmojiUsers, data.userId)
             ELSE Append(currentEmojiUsers, data.userId)
  IN [prev EXCEPT ![data.messageId][data.emoji] = updatedEmojiUsers]

handleMessageReactionFromSocket(prev, data) ==
  LET currentEmojiUsers == prev[data.messageId][data.emoji]
      updatedEmojiUsers ==
        IF data.action = "add"
        THEN IF includes(currentEmojiUsers, data.userId)
             THEN currentEmojiUsers
             ELSE Append(currentEmojiUsers, data.userId)
        ELSE IF data.action = "remove" THEN without(currentEmojiUsers, data.userId)
        ELSE IF includes(currentEmojiUsers, data.userId)
             THEN without(currentEmojiUsers, data.userId)
             ELSE Append(currentEmojiUsers, data.userId)
  IN [prev EXCEPT ![data.messageId][data.emoji] = updatedEmojiUsers]

\* a messageReaction event arrives at the client
handleMessageReaction ==
  /\ reactionInbox # <<>>
  /\ messageReactions' = handleMessageReactionFromSocket(messageReactions, Head(reactionInbox))
  /\ reactionInbox' = Tail(reactionInbox)
  /\ UNCHANGED serverVars
  /\ UNCHANGED <<socket, selectedConversation, listenerConversation, messages, loading, appVars,
                 inbox, sendVars>>
  /\ UNCHANGED typingVars

\* a connection other than the client's socket emits messageReaction
peerMessageReaction(c, data) == c # socket /\ messageReactionEvent(c, data)

\* SocketProvider's effect as it runs once for the user logged in
loginEffect(c) == socket = None /\ socketProviderEffect(c)

\* the connection of the one peer
solePeerConnect(c) == (\A d \in Conns : Live(d) => d = socket) /\ peerConnect(c)

\* the hub and one peer, whose events carry the actions of actions
HubReactionNext(actions) ==
  \/ \E c \in Conns : loginEffect(c)
  \/ \E k \in Convs : handleConversationSelect(Regular(k))
  \/ \E c \in Conns : solePeerConnect(c)
  \/ \E c \in Conns, data \in ReactionPayloads(actions, ConvRooms) :
       peerMessageReaction(c, data)
  \/ \E t \in BagToSet(reactionTasks) : reactionPersisted(t)
  \/ \E t \in BagToSet(reactionTasks) : reactionPersistFailed(t)
  \/ \E t \in BagToSet(reactionTasks) : reactionBroadcast(t)
  \/ handleMessageReaction

\* a peer that sends the actions 'add' and 'remove'
HubReactionSpec == Init /\ [][HubReactionNext({"add", "remove"})]_vars

\* a peer that sends any action
AnyActionSpec == Init /\ [][HubReactionNext(ReactionActions)]_vars

(***************************************************************************)
(* The user's own reactions: the callbacks the hub hands to the            *)
(* MessageReactions component update the mapping optimistically and emit   *)
(* the event; the server's broadcast comes back to the hub as well.        *)
(***************************************************************************)
\* socket.emit('messageReaction', ...) of the callbacks: dropped when there
\* is no socket
emitReaction(messageId, emoji, action) ==
  IF socket # None
  THEN messageReactionCore(socket, [messageId |-> messageId, emoji |-> emoji,
                                    action |-> action,
                                    conversationId |-> selectedConversation.id])
  ELSE UNCHANGED serverVars

onAddReaction(messageId, emoji) ==
  /\ selectedConversation # NoConversation
  /\ Len(messageReactions[messageId][emoji]) < MaxEmojiUsers
  /\ messageReactions' = [messageReactions EXCEPT ![messageId][emoji] = Append(@, Me)]
  /\ emitReaction(messageId, emoji, "add")
  /\ UNCHANGED <<socket, selectedConversation, listenerConversation, messages, loading,
                 inbox, reactionInbox, sendVars, typingVars, appVars>>

onRemoveReaction(messageId, emoji) ==
  /\ selectedConversation # NoConversation
  /\ messageReactions' = [messageReactions EXCEPT ![messageId][emoji] = without(@, Me)]
  /\ emitReaction(messageId, emoji, "remove")
  /\ UNCHANGED <<socket, selectedConversation, listenerConversation, messages, loading,
                 inbox, reactionInbox, sendVars, typingVars, appVars>>

\* the hub of a user who adds and removes reactions, and the server's
\* handling of the events
OwnReactionNext ==
  \/ \E c \in Conns : loginEffect(c)
  \/ \E k \in Convs : handleConversationSelect(Regular(k))
  \/ \E m \in MessageIds, e \in Emojis : onAddReaction(m, e)
  \/ \E m \in MessageIds, e \in Emojis : onRemoveReaction(m, e)
  \/ \E t \in BagToSet(reactionTasks) : reactionPersisted(t)
  \/ \E t \in BagToSet(reactionTasks) : reactionPersistFailed(t)
  \/ \E t \in BagToSet(reactionTasks) : reactionBroadcast(t)
  \/ handleMessageReaction

OwnReactionSpec == Init /\ [][OwnReactionNext]_vars

(***************************************************************************)
(* The hub receiving the messages of a peer that uses the application.     *)
(* Its socket payload is the row the backend returned for its POST (the    *)
(* controller is not part of these sources; a Message row holds its text   *)
(* under content, which is also the field the hub renders and the field of *)
(* the optimistic entry) spread under conversationId, senderId, senderName *)
(* and receiverId: it has no field message and no field tempId.            *)
(***************************************************************************)
AppMessage(id, content, senderId, conversationId, createdAt) ==
  [id |-> id, tempId |-> Undefined, message |-> Undefined, content |-> content,
   senderId |-> senderId, receiverId |-> Undefined, conversationId |-> conversationId,
   createdAt |-> createdAt]

\* group messages of a peer: two ids, two texts, sent 0, 3 and 6 seconds
\* after the first
DedupPayloads ==
  {AppMessage(id, text, Peer, k, t) :
     id \in {"m1", "m2"}, text \in {"hi", "yo"}, k \in ConvRooms, t \in {0, 3000, 6000}}

DedupNext ==
  \/ \E c \in Conns : loginEffect(c)
  \/ \E k \in Convs : handleConversationSelect(Regular(k))
  \/ \E c \in Conns : solePeerConnect(c)
  \/ \E c \in Conns, messageData \in DedupPayloads : peerSendMessage(c, messageData)
  \/ receiveMessage

DedupSpec == Init /\ [][DedupNext]_vars

(***************************************************************************)
(* Deletion notices: a peer's deleteMessage event and the hub's handling   *)
(* of the messageDeleted notice it is relayed as.                          *)
(***************************************************************************)
\* a peer in a conversation room (a client that has selected it)
peerJoinConversation(c, conversationId) ==
  c # socket /\ joinConversation(c, conversationId)

\* another connection announces a deletion; the notice the server emits to
\* the client's socket goes on the wire to the client
peerDeleteMessage(c, data) ==
  /\ c # socket
  /\ deleteMessageCore(c, data)
  /\ Len(inbox) + Len(DeliveredTo(emitted', socket)) <= MaxInbox
  /\ inbox' = inbox \o DeliveredTo(emitted', socket)
  /\ UNCHANGED <<socket, selectedConversation, listenerConversation, messages, loading, appVars,
                 hubReactionVars, sendVars, typingVars>>

\* prev.filter with the comparison inverted
handleMessageDeleted_KeepsOnlyThatId(prev, data) ==
  LET matches(msg) == msg.id = data.messageId IN SelectSeq(prev, matches)

\* prev => prev.filter(msg => msg.id !== messageId)
handleMessageDeleted(prev, data) ==
  LET differs(msg) == msg.id # data.messageId IN SelectSeq(prev, differs)

\* a messageDeleted notice arrives
messageDeleted ==
  /\ inbox # <<>>
  /\ IsDeletion(Head(inbox))
  /\ messages' = handleMessageDeleted(messages, Head(inbox))
  /\ inbox' = Tail(inbox)
  /\ UNCHANGED serverVars
  /\ UNCHANGED <<socket, selectedConversation, listenerConversation, loading, appVars,
                 hubReactionVars, sendVars, typingVars>>

\* the hub with one conversation open, and a peer that sends messages to
\* it and announces deletions
DeleteNext ==
  \/ \E c \in Conns : loginEffect(c)
  \/ \E k \in Convs : handleConversationSelect(Regular(k))
  \/ \E c \in Conns : solePeerConnect(c)
  \/ \E c \in Conns, id \in ConvRooms : peerJoinConversation(c, id)
  \/ \E c \in Conns, messageData \in ClientPayloads : peerSendMessage(c, messageData)
  \/ \E c \in Conns, data \in DeletePayloads(ConvRooms) : peerDeleteMessage(c, data)
  \/ receiveMessage
  \/ messageDeleted

DeleteSpec == Init /\ [][DeleteNext]_vars

(***************************************************************************)
(* The conversation list: loaded by loadInitialData, updated by            *)
(* handleNewMessage; and the ways the hub changes its selection without    *)
(* handleConversationSelect.                                               *)
(***************************************************************************)
\* the response of loadInitialData arrives: the list of the user's
\* conversations, deduplicated by id
loadInitialData ==
  /\ conversations' = [id \in ConvRooms |-> ListedConversation]
  /\ UNCHANGED restVars
  /\ UNCHANGED serverVars
  /\ UNCHANGED <<socket, selectedConversation, listenerConversation, messages, loading,
                 inbox, hubReactionVars, sendVars, typingVars>>

\* onClick of Start AI Chat, on the ai-chat tab of the sidebar:
\* setSelectedConversation(aiConversation) and the message states cleared;
\* nothing is emitted on the socket
startAiChat ==
  /\ selectedConversation' = AiConversation
  /\ messages' = <<>>
  /\ lastSend' = [lastSend EXCEPT !.intact = FALSE]
  /\ UNCHANGED serverVars
  /\ UNCHANGED <<socket, listenerConversation, loading, inbox, hubReactionVars,
                 newMessage, isUploading, sending, typingVars, appVars>>

\* the hub with its conversation list loaded, selecting the conversation
\* or the AI assistant, and a peer that sends messages to the conversation
UnreadNext ==
  \/ \E c \in Conns : loginEffect(c)
  \/ loadInitialData
  \/ \E k \in Convs : handleConversationSelect(Regular(k))
  \/ startAiChat
  \/ \E c \in Conns : solePeerConnect(c)
  \/ \E c \in Conns, messageData \in ClientPayloads : peerSendMessage(c, messageData)
  \/ receiveMessage

UnreadSpec == Init /\ [][UnreadNext]_vars

SendNext ==
  \/ \E c \in Conns : socketProviderEffect(c)
  \/ autoJoinEffect
  \/ \E conversation \in Conversations : handleConversationSelect(conversation)
  \/ \E k \in ConvRooms : \E loadedMessages \in StoredMessages(k) : loadMessagesDone(k, loadedMessages)
  \/ \E text \in Texts : setNewMessage(text)
  \/ handleSendMessage
  \/ sendSucceeded
  \/ sendUnsuccessful
  \/ sendThrew
  \/ receiveMessage

SendSpec == Init /\ [][SendNext]_vars

(***************************************************************************)
(* Client: the typing indication of the message input.  The hub sends      *)
(* typing true at every change that leaves text in the input and arms one  *)
(* timer, kept in typingTimeoutRef, that sends typing false 2 seconds      *)
(* later for the conversation selected when it was armed; the next change  *)
(* clears that timer, whichever conversation it was armed for.             *)
(***************************************************************************)
\* what the user can leave in the input, and value.trim()
InputValues == {"", " ", "hi"}
trim(value) == IF value = " " THEN "" ELSE value

\* sendTyping of the SocketContext value: socket.emit('typing') when there
\* is a socket, and the server's handling of the event
sendTyping(conversationId, isTyping) ==
  IF socket # None
  THEN /\ typingCore(socket, [conversationId |-> conversationId, isTyping |-> isTyping])
       /\ typingOn' = IF isTyping THEN typingOn \cup {conversationId}
                                  ELSE typingOn \ {conversationId}
  ELSE /\ UNCHANGED serverVars
       /\ UNCHANGED typingOn

\* onChange of the message input: setNewMessage and handleTypingIndicator
inputChange(value) ==
  /\ selectedConversation # NoConversation
  /\ ~isUploading
  /\ newMessage' = value
  /\ IF trim(value) # ""
     THEN /\ sendTyping(selectedConversation.id, TRUE)
          /\ typingTimeoutRef' = selectedConversation.id
     ELSE /\ sendTyping(selectedConversation.id, FALSE)
          /\ typingTimeoutRef' = UndefinedId
  /\ UNCHANGED <<socket, selectedConversation, listenerConversation, messages, loading, appVars,
                 inbox, hubReactionVars, isUploading, sending, lastSend>>

\* the timer armed by handleTypingIndicator fires
typingTimeoutFires ==
  /\ typingTimeoutRef # UndefinedId
  /\ sendTyping(typingTimeoutRef, FALSE)
  /\ typingTimeoutRef' = UndefinedId
  /\ UNCHANGED <<socket, selectedConversation, listenerConversation, messages, loading, appVars,
                 inbox, hubReactionVars, sendVars>>

\* the cleanup of SocketProvider's effect (the user changes or logs out):
\* newSocket.disconnect() and setSocket(null)
socketProviderCleanup ==
  /\ socket # None
  /\ disconnectCore(socket)
  /\ socket' = None
  /\ UNCHANGED <<selectedConversation, listenerConversation, messages, loading, appVars,
                 inbox, hubReactionVars, sendVars, typingVars>>

TypingNext ==
  \/ \E c \in Conns : loginEffect(c)
  \/ \E conversation \in Conversations : handleConversationSelect(conversation)
  \/ \E value \in InputValues : inputChange(value)
  \/ typingTimeoutFires
  \/ socketProviderCleanup

\* a pending timer fires
TypingSpec == Init /\ [][TypingNext]_vars /\ WF_vars(typingTimeoutFires)

(***************************************************************************)
(* Properties                                                              *)
(***************************************************************************)
(* Client: the follow context (FollowProvider of FollowContext.jsx) and    *)
(* the followorunfollow endpoint it calls.  The state updates toggleFollow *)
(* makes before its await are one step; what follows the response is       *)
(* another.  React re-renders between two user events, so a call sees the  *)
(* followingUsers of the moment it is made.                                *)
(***************************************************************************)
\* the user objects toggleFollow is called with: the target, carrying its
\* id under id or under _id
UserObjects == {[id |-> "u2", _id |-> Undefined], [id |-> Undefined, _id |-> "u2"]}

\* user.id || user._id
idOf(user) == IF user.id # Undefined THEN user.id ELSE user._id

\* prev[id]?.field || 0
countOf(prev, id, field) ==
  IF id \in DOMAIN prev /\ field \in DOMAIN prev[id] THEN prev[id][field] ELSE 0

\* { ...prev[id] }
spread(prev, id) == IF id \in DOMAIN prev THEN prev[id] ELSE <<>>

\* { ...obj, [key]: value }
put(obj, key, value) == (key :> value) @@ obj

\* wasFollowing ? -1 : 1
delta(wasFollowing) == IF wasFollowing THEN -1 ELSE 1

\* the object literal of the optimistic update: the entry under [user.id]
\* is written after the entry under [userId]
optimisticCounts(prev, user, wasFollowing) ==
  put(put(prev, idOf(user),
          put(spread(prev, idOf(user)), "followers",
              countOf(prev, idOf(user), "followers") + delta(wasFollowing))),
      user.id,
      ("followers" :> countOf(prev, user.id, "followers")) @@
      ("following" :> countOf(prev, user.id, "following") + delta(wasFollowing)))

\* the object literal of the success branch, written in the same order
confirmedCounts(prev, user, wasFollowing, targetUserFollowerCount) ==
  put(put(prev, idOf(user),
          ("followers" :> targetUserFollowerCount) @@
          ("following" :> countOf(prev, idOf(user), "following"))),
      user.id,
      ("followers" :> countOf(prev, user.id, "followers")) @@
      ("following" :> countOf(prev, user.id, "following") + delta(wasFollowing)))

\* the object literal of the two reverting branches
revertedCounts(prev, user, wasFollowing) ==
  put(prev, idOf(user),
      put(spread(prev, idOf(user)), "followers",
          countOf(prev, idOf(user), "followers") - delta(wasFollowing)))

\* setFollowingUsers of the reverting branches
revertedFollowing(prev, user, wasFollowing) ==
  IF wasFollowing THEN prev \cup {idOf(user)} ELSE prev \ {idOf(user)}

\* toggleFollow up to its await: processing state, optimistic update of
\* the set and of the counts, and the request sent
toggleFollow(user) ==
  /\ followSeq < MaxFollows
  /\ Len(followCalls) < MaxFollowCalls
  /\ LET userId_ == idOf(user)
         wasFollowing == userId_ \in followingUsers
     IN /\ processingUsers' = processingUsers \cup {userId_}
        /\ followingUsers' = IF wasFollowing THEN followingUsers \ {userId_}
                                             ELSE followingUsers \cup {userId_}
        /\ followCounts' = optimisticCounts(followCounts, user, wasFollowing)
        /\ followCalls' =
             Append([i \in DOMAIN followCalls |-> [followCalls[i] EXCEPT !.alone = FALSE]],
                    [n |-> followSeq + 1, user |-> user, wasFollowing |-> wasFollowing,
                     served |-> FALSE, targetUserFollowerCount |-> 0,
                     alone |-> followCalls = <<>>,
                     before |-> [following |-> wasFollowing, counts |-> followCounts]])
  /\ followSeq' = followSeq + 1
  /\ UNCHANGED <<followLog, followServer>>
  /\ UNCHANGED <<serverVars, hubVars, apiVars>>

\* the endpoint handles the request of call i: it toggles the relation and
\* answers with the target's follower count
followServed(i) ==
  /\ i \in DOMAIN followCalls
  /\ ~followCalls[i].served
  /\ followServer' = [following |-> ~followServer.following,
                      followers |-> followServer.followers +
                                      delta(followServer.following)]
  /\ followCalls' = [followCalls EXCEPT ![i].served = TRUE,
                       ![i].targetUserFollowerCount = followServer'.followers]
  /\ UNCHANGED <<followingUsers, followCounts, processingUsers, followSeq, followLog>>
  /\ UNCHANGED <<serverVars, hubVars, apiVars>>

\* finally: the user leaves processingUsers; the call is over
followFinally(i, outcome) ==
  /\ processingUsers' = processingUsers \ {idOf(followCalls[i].user)}
  /\ followCalls' = RemoveAt(followCalls, i)
  /\ followLog' = Append(followLog, [call |-> followCalls[i], outcome |-> outcome])
  /\ UNCHANGED <<followSeq, followServer>>
  /\ UNCHANGED <<serverVars, hubVars, apiVars>>

\* the response of call i arrives with success true.  (The followNotification
\* the branch emits on the context's own socket has no handler in socket.js.)
followSucceeded(i) ==
  /\ i \in DOMAIN followCalls
  /\ followCalls[i].served
  /\ followCounts' = confirmedCounts(followCounts, followCalls[i].user,
                                     followCalls[i].wasFollowing,
                                     followCalls[i].targetUserFollowerCount)
  /\ UNCHANGED followingUsers
  /\ followFinally(i, "success")

\* the endpoint refuses the request of call i: the response arrives with
\* success false and the relation is as it was
followRefused(i) ==
  /\ i \in DOMAIN followCalls
  /\ ~followCalls[i].served
  /\ followingUsers' = revertedFollowing(followingUsers, followCalls[i].user,
                                         followCalls[i].wasFollowing)
  /\ followCounts' = revertedCounts(followCounts, followCalls[i].user,
                                    followCalls[i].wasFollowing)
  /\ followFinally(i, "failure")

\* the request of call i throws (no response reaches the client, whether
\* the endpoint has handled the request or not)
followThrew(i) ==
  /\ i \in DOMAIN followCalls
  /\ followingUsers' = revertedFollowing(followingUsers, followCalls[i].user,
                                         followCalls[i].wasFollowing)
  /\ followCounts' = revertedCounts(followCounts, followCalls[i].user,
                                    followCalls[i].wasFollowing)
  /\ followFinally(i, "error")

FollowNext ==
  \/ \E user \in UserObjects : toggleFollow(user)
  \/ \E i \in 1..MaxFollowCalls : followServed(i)
  \/ \E i \in 1..MaxFollowCalls : followSucceeded(i)
  \/ \E i \in 1..MaxFollowCalls : followRefused(i)
  \/ \E i \in 1..MaxFollowCalls : followThrew(i)

FollowSpec == Init /\ [][FollowNext]_vars

(***************************************************************************)
(* Client: the axios instance of utils/api.js with its two interceptors.   *)
(* Paths and urls are sequences of characters, so that String.includes is  *)
(* the substring test it is.  The application starts signed in, with       *)
(* token and user stored.                                                  *)
(***************************************************************************)
\* haystack.pathIncludes(needle)
pathIncludes(haystack, needle) ==
  \E i \in 0..(Len(haystack) - Len(needle)) :
    SubSeq(haystack, i + 1, i + Len(needle)) = needle

\* no request in flight
NoRequest == [url |-> <<>>, Authorization |-> FALSE]

Slash == <<"/">>
LoginPath == <<"/", "l", "o", "g", "i", "n">>
RegisterPath == <<"/", "r", "e", "g", "i", "s", "t", "e", "r">>
MessagesPath == <<"/", "m", "e", "s", "s", "a", "g", "e", "s">>
ProfilePath == <<"/", "p", "r", "o", "f", "i", "l", "e", "/", "u", "2">>

\* the pages of the application: a pathname begins with "/"
Pathnames == {Slash, LoginPath, RegisterPath, MessagesPath, ProfilePath}

OwnProfileUrl == <<"/", "u", "s", "e", "r", "/", "p", "r", "o", "f", "i", "l", "e">>
ProfileUrl == OwnProfileUrl \o <<"/", "u", "2">>
PostsUrl == <<"/", "p", "o", "s", "t", "/", "a", "l", "l">>

\* the endpoints requested: getProfile(), getProfile(userId), getAllPosts()
Urls == {OwnProfileUrl, ProfileUrl, PostsUrl}

\* the statuses of a response; NoResponse stands for an error without one
NoResponse == 0
Statuses == {200, 401, 404, 500, NoResponse}

\* the user opens a page of the application
navigate(path) ==
  /\ pathname # path
  /\ pathname' = path
  /\ UNCHANGED <<localStorage, request, settled>>
  /\ UNCHANGED <<serverVars, hubVars, followVars>>

\* a request leaves through the request interceptor, which adds the
\* Authorization header when a token is stored
sendRequest(url) ==
  /\ request = NoRequest
  /\ request' = [url |-> url, Authorization |-> "token" \in localStorage]
  /\ UNCHANGED <<localStorage, pathname, settled>>
  /\ UNCHANGED <<serverVars, hubVars, followVars>>

\* the condition both branches of the response interceptor put before
\* their redirect
redirects(currentPath) ==
  /\ ~pathIncludes(currentPath, LoginPath)
  /\ ~pathIncludes(currentPath, RegisterPath)
  /\ ~pathIncludes(currentPath, Slash)

\* error.response?.status === 401
isAuthError(status) == status = 401

\* error.response?.status === 404 for the own profile
isOwnProfileMissing(status, url) ==
  /\ status = 404
  /\ pathIncludes(url, OwnProfileUrl)
  /\ ~pathIncludes(url, OwnProfileUrl \o Slash)

\* the response interceptor: a response passes; an error clears the stored
\* token and user on 401 and on a missing own profile, redirects under
\* the condition above, and is rejected
respond(status) ==
  /\ request # NoRequest
  /\ request' = NoRequest
  /\ IF status = 200
       THEN /\ settled' = [state |-> "fulfilled", status |-> status, url |-> request.url]
            /\ UNCHANGED <<localStorage, pathname>>
       ELSE /\ localStorage' =
                 IF isAuthError(status) \/ isOwnProfileMissing(status, request.url)
                   THEN localStorage \ {"token", "user"}
                   ELSE localStorage
            /\ pathname' =
                 IF /\ isAuthError(status) \/ isOwnProfileMissing(status, request.url)
                    /\ redirects(pathname)
                   THEN LoginPath
                   ELSE pathname
            /\ settled' = [state |-> "rejected", status |-> status, url |-> request.url]
  /\ UNCHANGED <<serverVars, hubVars, followVars>>

ApiNext ==
  \/ \E path \in Pathnames : navigate(path)
  \/ \E url \in Urls : sendRequest(url)
  \/ \E status \in Statuses : respond(status)

ApiSpec == Init /\ [][ApiNext]_vars

(***************************************************************************)
LiveOf(u) == {c \in Conns : Live(c) /\ userId[c] = u}
InvalidToken(token) == token = NoToken \/ jwtVerify(token) = "throw"
\* connections the receiveMessage emissions of the last step went to, for room k
Reached(k) ==
  UNION {emitted[i].to : i \in {j \in DOMAIN emitted :
           emitted[j].ev = "receiveMessage" /\ emitted[j].data.conversationId = k}}

\* C1: a connection whose handshake carried no token or a token that fails
\* verification is in no room, is not in connectedUsers, has no handler
\* continuation in flight, and no step other than its handshake is ever
\* attributed to it.
C1_RefusedBeforeHandler ==
  \A c \in Conns :
    (connState[c] # "new" /\ InvalidToken(handshake[c])) =>
      /\ connState[c] = "refused"
      /\ rooms[c] = {}
      /\ \A u \in Keys : connectedUsers[u] # c
      /\ \A i \in DOMAIN tasks : tasks[i].conn # c
      /\ inbound.conn = c => inbound.ev = "connect"

C1_Witness ==
  \E c, d \in Conns :
    /\ connState[c] = "refused" /\ handshake[c] = BadToken
    /\ Live(d) /\ inbound.ev = "joinConversation" /\ inbound.conn = d

\* C2: for every identity u, connectedUsers has an entry for u if and only
\* if u has at least one live connection.
C2_EntryIffLiveConnection ==
  \A u \in Users : (connectedUsers[u] # None) <=> (LiveOf(u) # {})

\* C3: an 'offline' userStatusUpdate for u is broadcast only by the
\* disconnect of u's last live connection, and once u has no live
\* connection getReceiverSocketId(u) returns nothing.
C3_OfflineOnlyAtLastDisconnect ==
  /\ \A i \in DOMAIN emitted :
       (emitted[i].ev = "userStatusUpdate" /\ emitted[i].data.status = "offline")
         => LiveOf(emitted[i].data.userId) = {}
  /\ \A u \in Users : LiveOf(u) = {} => getReceiverSocketId(u) = None

\* C4: once a connection of u has disconnected and another connection of u
\* is live, in whichever order the connect and the disconnect ran,
\* getReceiverSocketId(u) yields a live connection of u.
C4_ConnectNotLostToDisconnect ==
  \A u \in Users :
    ((\E c \in Conns : connState[c] = "closed" /\ userId[c] = u) /\ LiveOf(u) # {})
      => getReceiverSocketId(u) \in LiveOf(u)

\* C5: a connection is a member of the personal room of its own verified
\* identity only, so a newNotification reaches only connections
\* authenticated as the receiver.
C5_PersonalRoomOnlyOwner ==
  /\ \A c \in Conns, u \in Users : UserRoom(u) \in rooms[c] => userId[c] = u
  /\ \A i \in DOMAIN emitted :
       emitted[i].ev = "newNotification" =>
         \A d \in emitted[i].to : userId[d] = emitted[i].data.receiverId

\* C6: every active connection is a member of its own identity's personal
\* room.
C6_AlwaysInOwnPersonalRoom ==
  \A c \in Conns : Live(c) => UserRoom(userId[c]) \in rooms[c]

\* C7: a sendMessage with a conversationId has broadcast receiveMessage to
\* the room's members in the very step that starts the notification code,
\* so while the persistence call is still pending (and whether it later
\* resolves, throws or never returns) the broadcast has already happened;
\* the continuation of the notification code emits no receiveMessage.
C7_BroadcastBeforeNotification ==
  /\ (inbound.ev = "sendMessage" /\ Truthy(inbound.conversationId)) =>
       /\ ioTo(inbound.conversationId) \ {inbound.conn} \subseteq Reached(inbound.conversationId)
       /\ \A i \in DOMAIN tasks :
            (tasks[i].conn = inbound.conn /\ tasks[i].data.conversationId = inbound.conversationId)
              => \E j \in DOMAIN emitted :
                   emitted[j].ev = "receiveMessage" /\ emitted[j].data.conversationId = inbound.conversationId
  /\ inbound.ev \in {"notificationCreated", "notificationFailed"} =>
       \A j \in DOMAIN emitted : emitted[j].ev # "receiveMessage"

C7_Witness ==
  /\ inbound.ev = "sendMessage" /\ Truthy(inbound.conversationId)
  /\ \E i \in DOMAIN tasks :
       tasks[i].conn = inbound.conn /\ tasks[i].data.conversationId = inbound.conversationId
  /\ Reached(inbound.conversationId) \ {inbound.conn} # {}

\* C8: on sendMessage with a conversationId, receiveMessage carrying the
\* payload goes to every connection that is a member of that room other
\* than the sender's, and to no connection that is not a member of it.
C8_DeliveredToMembersOnly ==
  (inbound.ev = "sendMessage" /\ Truthy(inbound.conversationId)) =>
    /\ \A d \in Conns :
         (Live(d) /\ inbound.conversationId \in rooms[d] /\ d # inbound.conn)
           => d \in Reached(inbound.conversationId)
    /\ \A d \in Reached(inbound.conversationId) : inbound.conversationId \in rooms[d]
    /\ \A i \in DOMAIN emitted :
         /\ emitted[i].ev = "receiveMessage"
         /\ emitted[i].data.conversationId = inbound.conversationId

C8_Witness ==
  /\ inbound.ev = "sendMessage" /\ Truthy(inbound.conversationId)
  /\ \E d, e \in Conns :
       /\ d # inbound.conn /\ d \in Reached(inbound.conversationId)
       /\ Live(e) /\ inbound.conversationId \notin rooms[e]
       /\ e \notin Reached(inbound.conversationId)

\* C9: room membership is per connection: a connection becomes a member of
\* a conversation room only by a joinConversation for that room that it
\* issued itself (never by connecting, whatever rooms other connections of
\* its identity are or were in), and a receiveMessage is delivered to a
\* connection only if that connection is a member of the room.
C9_MembershipPerConnection ==
  [][ /\ \A c \in Conns, k \in ConvRooms :
           (k \in rooms'[c] /\ k \notin rooms[c]) =>
             /\ inbound'.ev = "joinConversation"
             /\ inbound'.conn = c
             /\ inbound'.conversationId = k
      /\ \A i \in DOMAIN emitted' :
           emitted'[i].ev = "receiveMessage" =>
             \A d \in emitted'[i].to : emitted'[i].data.conversationId \in rooms'[d]
    ]_vars

\* the identity joined k on a connection that has since disconnected, its
\* new connection has not joined k, and a broadcast to k passes it by
C9_Witness ==
  \E old, new \in Conns, k \in ConvRooms :
    /\ connState[old] = "closed" /\ k \in roomsAtClose[old]
    /\ Live(new) /\ userId[new] = userId[old] /\ k \notin rooms[new]
    /\ inbound.ev = "sendMessage" /\ inbound.conversationId = k
    /\ Len(emitted) > 0 /\ new \notin Reached(k)

\* C10: whatever receiveMessage events arrive, in whatever number and
\* order (each broadcast reaches a room member once per delivery channel),
\* the message list never holds two entries with the same id.
C10_NoDuplicateServerId ==
  \A i, j \in DOMAIN messages : i # j => messages[i].id # messages[j].id

\* both copies of one broadcast have been handled and the list holds the
\* message once
C10_Witness ==
  /\ inbound.ev = "sendMessage" /\ Len(emitted) = 2
  /\ socket \in emitted[1].to /\ socket \in emitted[2].to
  /\ inbox = <<>>
  /\ Cardinality({i \in DOMAIN messages : messages[i] = emitted[1].data}) = 1

\* the entries of the message list whose id is id
EntriesWithId(id) == {i \in DOMAIN messages : messages[i].id = id}

\* C11: once the durable write of a sent message has succeeded, the message
\* list (not reset or reloaded since the optimistic entry was added) holds
\* exactly one entry for the message, carrying the server id, and no entry
\* under the tempId, both while the server's echo is still on the wire and
\* after it has been handled.
C11_OneEntryAfterSend ==
  (lastSend.outcome = "success" /\ lastSend.intact) =>
    /\ Cardinality(EntriesWithId(lastSend.id)) = 1
    /\ EntriesWithId(lastSend.tempId) = {}
    /\ \A i \in EntriesWithId(lastSend.id) : ~messages[i].isOptimistic

\* the write succeeded, the echo of the socket sendMessage came back to
\* the sender, whose listener sees the conversation, and has been handled
C11_Witness ==
  /\ lastSend.outcome = "success" /\ lastSend.intact
  /\ inbound.ev = "sendMessage" /\ inbound.conn = socket
  /\ Len(emitted) = 2 /\ socket \in emitted[2].to /\ emitted[2].data.id = lastSend.id
  /\ listenerConversation.id = lastSend.conversationId
  /\ inbox = <<>>
  /\ Cardinality(EntriesWithId(lastSend.id)) = 1

\* C12: when the durable write does not succeed (the request throws or the
\* response says success false), the step that ends the call leaves no
\* entry under the call's tempId and the draft input holds the sent text.
C12_FailedSendRolledBack ==
  [][ (sending # NoSend /\ sending' = NoSend /\ lastSend'.outcome # "success") =>
        /\ \A i \in DOMAIN messages' : messages'[i].id # sending.tempId
        /\ newMessage' = sending.content
    ]_vars

\* C13: adding the same (messageId, userId, emoji) again leaves the
\* persisted state as it was: no key ever has more than one row, and
\* after the persistence of an 'add' has taken effect its key has exactly one.
C13_AddIdempotent ==
  /\ \A key \in ReactionKeys : messageReaction[key] <= 1
  /\ (inbound.ev = "reactionPersisted" /\ inbound.action = "add") =>
       messageReaction[inbound.key] = 1

\* two handlers of 'add' for one key have both persisted; the key has one row
C13_Witness ==
  /\ inbound.ev = "reactionPersisted" /\ inbound.action = "add"
  /\ BagCardinality(reactionTasks) = 2
  /\ \A t \in BagToSet(reactionTasks) :
       /\ t.call = "resolved" /\ t.data.action = "add"
       /\ KeyOf(t.conn, t.data) = inbound.key
  /\ messageReaction[inbound.key] = 1

\* the handlers in flight for key whose persistence call has not settled
Unsettled(key) ==
  {t \in BagToSet(reactionTasks) : KeyOf(t.conn, t.data) = key /\ t.call = "pending"}

\* C14: once the events add, remove, remove for one key have arrived, in
\* that order and with no other event for the key, and the persistence
\* call of each has taken effect without an error, the key has no row.
C14_NoEntryAfterAddRemoveRemove ==
  \A key \in ReactionKeys :
    (script[key] = Course /\ Unsettled(key) = {}) => messageReaction[key] = 0

\* how many times the user u is in the list users
Occurrences(users, u) == Cardinality({i \in DOMAIN users : users[i] = u})

ReactionBroadcasts(out) == {i \in DOMAIN out : out[i].ev = "messageReaction"}

\* C16: the step that receives a messageReaction event emits nothing and
\* leaves one more handler awaiting its persistence call; a messageReaction
\* broadcast is emitted only by a step that ends one handler whose call
\* has settled, resolved or rejected, and is that handler's payload sent
\* once to its conversation room; a handler ends in no other way.
C16_OneBroadcastAfterPersistence ==
  [][ /\ BagCardinality(reactionTasks') > BagCardinality(reactionTasks) =>
           /\ emitted' = <<>>
           /\ \E t \in BagToSet(reactionTasks') :
                /\ t.call = "pending"
                /\ reactionTasks' = reactionTasks (+) SetToBag({t})
      /\ (ReactionBroadcasts(emitted') # {} \/
            BagCardinality(reactionTasks') < BagCardinality(reactionTasks)) =>
           \E t \in BagToSet(reactionTasks) :
             /\ t.call \in {"resolved", "rejected"}
             /\ reactionTasks' = reactionTasks (-) SetToBag({t})
             /\ emitted' = << Emission("messageReaction", ioTo(t.data.conversationId),
                                       [messageId |-> t.data.messageId, emoji |-> t.data.emoji,
                                        action |-> t.data.action, userId |-> userId[t.conn]]) >>
    ]_vars

\* a handler whose persistence call failed has just emitted its broadcast
C16_Witness ==
  /\ inbound.ev = "reactionBroadcast" /\ inbound.call = "rejected"
  /\ Len(emitted) = 1 /\ ReactionBroadcasts(emitted) = {1}
  /\ emitted[1].data.action = inbound.action

\* C17: a step in which the client handles a messageReaction event takes
\* the event's user out of the emoji's list only if the action is
\* 'remove' and puts the user into it only if the action is 'add'.
C17_AppliedByAction ==
  [][ handleMessageReaction =>
        LET data == Head(reactionInbox)
            before == Occurrences(messageReactions[data.messageId][data.emoji], data.userId)
            after == Occurrences(messageReactions'[data.messageId][data.emoji], data.userId)
        IN /\ after < before => data.action = "remove"
           /\ after > before => data.action = "add"
    ]_vars

\* C18: a step in which an event with a malformed payload arrives emits
\* nothing and changes no connection's state, no room membership and no
\* presence entry, so that later events are still processed.
C18_MalformedDropped ==
  [][ \A c \in Conns, ev \in MalformedEvents :
        malformedEvent(c, ev) =>
          /\ emitted' = <<>>
          /\ connState' = connState
          /\ rooms' = rooms
          /\ connectedUsers' = connectedUsers
    ]_vars

\* C19: a sendMessage whose payload has no conversationId emits nothing
\* when it arrives, and its handler creates no Notification and emits no
\* newNotification afterwards.
C19_NoConversationNoEffect ==
  [][ /\ \A c \in Conns, messageData \in ServerPayloads :
           (sendMessage(c, messageData) /\ ~Truthy(messageData.conversationId)) =>
             emitted' = <<>>
      /\ \A i \in DOMAIN tasks :
           (notificationCreated(i) /\ ~Truthy(tasks[i].data.conversationId)) =>
             /\ notifications' = notifications
             /\ emitted' = <<>>
    ]_vars

\* C20: a step in which the persistence code of a sendMessage or
\* messageReaction handler fails emits nothing and changes no connection's
\* state, room membership or presence entry; the broadcast that follows a
\* failed reaction call carries the event's payload only; so the
\* connection of the handler is active afterwards and takes later events.
C20_PersistenceFailureConfined ==
  [][ /\ \A i \in DOMAIN tasks :
           notificationFailed(i) =>
             /\ emitted' = <<>>
             /\ connState' = connState /\ rooms' = rooms
             /\ connectedUsers' = connectedUsers
             /\ connState'[tasks[i].conn] = "active"
      /\ \A t \in BagToSet(reactionTasks) :
           /\ reactionPersistFailed(t) =>
                /\ emitted' = <<>>
                /\ connState' = connState /\ rooms' = rooms
                /\ connectedUsers' = connectedUsers
                /\ connState'[t.conn] = "active"
           /\ (reactionBroadcast(t) /\ t.call = "rejected") =>
                /\ emitted' = << Emission("messageReaction", ioTo(t.data.conversationId),
                                          reactionPayload(t.conn, t.data)) >>
                /\ connState' = connState /\ rooms' = rooms
                /\ connectedUsers' = connectedUsers
    ]_vars

\* the persistence call of one handler of a connection has failed, and a
\* later messageReaction event of the same connection has been received
C20_Witness ==
  /\ inbound.ev = "messageReaction"
  /\ Live(inbound.conn)
  /\ \E t \in BagToSet(reactionTasks) : t.call = "rejected" /\ t.conn = inbound.conn
  /\ \E t \in BagToSet(reactionTasks) : t.call = "pending" /\ t.conn = inbound.conn

\* C21: a connection that has disconnected is in no room and is not the
\* connection of any presence entry, and a step attributed to it after
\* its disconnect (the continuation of one of its handlers) emits nothing.
C21_SilentAfterDisconnect ==
  \A c \in Conns :
    connState[c] = "closed" =>
      /\ rooms[c] = {}
      /\ \A u \in Keys : connectedUsers[u] # c
      /\ (inbound.conn = c /\ inbound.ev # "disconnect") => emitted = <<>>

\* the handlers in flight for key
InFlight(key) == {t \in BagToSet(reactionTasks) : KeyOf(t.conn, t.data) = key}

\* C22: when the only connection ever opened has sent add and then remove
\* for one key and nothing else for it, and both persistence calls have
\* taken effect, the key has no row; and when both handlers have ended
\* and the last step was a broadcast for the key, it was that of the remove.
C22_ArrivalOrderKept ==
  \A key \in ReactionKeys :
    (Cardinality({c \in Conns : connState[c] # "new"}) = 1 /\ script[key] = <<"add", "remove">>) =>
      /\ Unsettled(key) = {} => messageReaction[key] = 0
      /\ (InFlight(key) = {} /\ inbound.ev = "reactionBroadcast" /\ inbound.key = key) =>
           inbound.action = "remove"

\* the 'online' status events for user u among the emissions out
OnlineEvents(out, u) ==
  {i \in DOMAIN out : /\ out[i].ev = "userStatusUpdate"
                        /\ out[i].data = [userId |-> u, status |-> "online"]}

\* C23: the step that registers a connection, when this is the only live
\* connection of its identity, emits an 'online' status event for the
\* identity to all other connections; when the identity has another live
\* connection, it emits none.
C23_OnlineOnFirstConnection ==
  (inbound.ev = "connect" /\ Live(inbound.conn)) =>
    LET c == inbound.conn
    IN IF LiveOf(userId[c]) = {c}
       THEN \E i \in OnlineEvents(emitted, userId[c]) : emitted[i].to = socketBroadcast(c)
       ELSE OnlineEvents(emitted, userId[c]) = {}

\* the payload names a receiver, and one that is not the sender
NamesOtherReceiver(messageData) ==
  messageData.receiverId \in Users /\ messageData.receiverId # messageData.senderId

\* C24: a sendMessage starts the creation of a Notification if and only
\* if its payload names a receiver other than the sender; the creation
\* that resolves adds exactly one row, and no row is added in any other way.
C24_NotificationIffOtherReceiver ==
  [][ /\ \A c \in Conns, messageData \in ReceiverPayloads :
           sendMessage(c, messageData) =>
             IF NamesOtherReceiver(messageData)
             THEN tasks' = Append(tasks, [conn |-> c, data |-> messageData])
             ELSE tasks' = tasks
      /\ \A i \in DOMAIN tasks :
           notificationCreated(i) => notifications' = notifications + 1
      /\ notifications' # notifications =>
           \E i \in DOMAIN tasks :
             /\ NamesOtherReceiver(tasks[i].data)
             /\ tasks' = RemoveAt(tasks, i)
             /\ notifications' = notifications + 1
    ]_vars

\* the Notification of a message to another user has just been created,
\* and no handler is in flight
C24_Witness ==
  /\ inbound.ev = "notificationCreated"
  /\ notifications = 1 /\ tasks = <<>>
  /\ Len(emitted) = 1 /\ NamesOtherReceiver(emitted[1].data)

\* the entry m matches the incoming message by server id, by tempId, or
\* by sender and content with timestamps less than 5 seconds apart
Matches(m, message) ==
  \/ m.id = message.id
  \/ (m.tempId # Undefined /\ m.tempId = message.tempId)
  \/ /\ m.senderId = message.senderId
     /\ m.content = message.content
     /\ (IF m.createdAt >= message.createdAt
         THEN m.createdAt - message.createdAt
         ELSE message.createdAt - m.createdAt) < 5000

\* C25: when the client handles a receiveMessage for the conversation that
\* is selected (and that its listener sees), the message is appended if no
\* entry of the list matches it and the list is left as it is otherwise.
C25_AppendedIffNoMatch ==
  [][ (/\ receiveMessage
       /\ Head(inbox).conversationId = selectedConversation.id
       /\ listenerConversation = selectedConversation) =>
        messages' = IF \E i \in DOMAIN messages : Matches(messages[i], Head(inbox))
                    THEN messages
                    ELSE Append(messages, Head(inbox))
    ]_vars

\* C26: the step in which a messageReaction handler broadcasts emits one
\* messageReaction event to all live connections that are in the room
\* named by the request, the handler's own connection among them when it
\* is in the room, with the request's messageId, emoji and action and the
\* identity verified at the handshake of the handler's connection.
C26_BroadcastToRoomWithVerifiedUser ==
  [][ \A t \in BagToSet(reactionTasks) :
        reactionBroadcast(t) =>
          /\ Len(emitted') = 1
          /\ emitted'[1].ev = "messageReaction"
          /\ emitted'[1].to = {d \in Conns : connState[d] = "active" /\
                                             t.data.conversationId \in rooms[d]}
          /\ emitted'[1].data = [messageId |-> t.data.messageId, emoji |-> t.data.emoji,
                                  action |-> t.data.action,
                                  userId |-> jwtVerify(handshake[t.conn])]
    ]_vars

\* a connection of user u1 in a room with a connection of another user
\* has had its reaction, whose payload named u2, broadcast to both under
\* its own identity
C26_Witness ==
  /\ inbound.ev = "reactionBroadcast"
  /\ userId[inbound.conn] = "u1"
  /\ Len(emitted) = 1
  /\ inbound.conn \in emitted[1].to /\ Cardinality(emitted[1].to) = 2
  /\ emitted[1].data.userId = userId[inbound.conn]
  /\ \E d \in emitted[1].to : userId[d] # userId[inbound.conn]

\* C27: whenever the last typing event the client emitted for a
\* conversation says isTyping true, the client later emits one for that
\* conversation that says false.
C27_TypingEventuallyOff ==
  \A id \in {conversation.id : conversation \in Conversations} :
    (id \in typingOn) ~> (id \notin typingOn)

\* C28: the step that handles a typing event emits one userTyping event,
\* carrying the identity verified at the sender's handshake and the
\* isTyping flag of the payload, to all live connections in the room named
\* by the payload other than the sender's connection, and to no other.
C28_TypingRelayedToOthersInRoom ==
  [][ \A c \in Conns, data \in TypingPayloads(RoomNames) :
        typing(c, data) =>
          /\ Len(emitted') = 1
          /\ emitted'[1].ev = "userTyping"
          /\ emitted'[1].to = {d \in Conns \ {c} : connState[d] = "active" /\
                                                    data.conversationId \in rooms[d]}
          /\ emitted'[1].data = [userId |-> jwtVerify(handshake[c]),
                                  isTyping |-> data.isTyping]
    ]_vars

\* a member of a conversation room has sent typing true for it; it went
\* to another member and not back to the sender
C28_Witness ==
  /\ inbound.ev = "typing" /\ inbound.conversationId \in ConvRooms
  /\ inbound.conversationId \in rooms[inbound.conn]
  /\ Len(emitted) = 1 /\ emitted[1].data.isTyping
  /\ emitted[1].to # {} /\ inbound.conn \notin emitted[1].to

Elements(ids) == {ids[i] : i \in DOMAIN ids}
ReachedBy(out, ev) == UNION {out[i].to : i \in {j \in DOMAIN out : out[j].ev = ev}}
ConnectionsOf(ids) == {d \in Conns : connState[d] = "active" /\ userId[d] \in ids}

\* C29: the step that handles a group event delivers the corresponding
\* outbound event to the live connections of the identities in
\* participantIds (groupMemberAdded also to those of the new member;
\* memberRemoved also a removedFromGroup to those of the removed member), to
\* all of them other than the connection the event came from and to no
\* connection of another identity.
C29_GroupEventsToParticipantsOnly ==
  [][ \A c \in Conns, data \in GroupPayloads :
        LET ids == Elements(data.participantIds) IN
        /\ groupCreated(c, data) =>
             ReachedBy(emitted', "newGroup") = ConnectionsOf(ids) \ {c}
        /\ groupUpdated(c, data) =>
             ReachedBy(emitted', "groupUpdate") = ConnectionsOf(ids) \ {c}
        /\ memberAdded(c, data) =>
             ReachedBy(emitted', "groupMemberAdded") =
               ConnectionsOf(ids \cup {data.newMemberId}) \ {c}
        /\ memberRemoved(c, data) =>
             /\ ReachedBy(emitted', "groupMemberRemoved") = ConnectionsOf(ids) \ {c}
             /\ ReachedBy(emitted', "removedFromGroup") =
                  ConnectionsOf({data.removedMemberId}) \ {c}
        /\ groupDeleted(c, data) =>
             ReachedBy(emitted', "groupDeleted") = ConnectionsOf(ids) \ {c}
        /\ adminRoleChanged(c, data) =>
             ReachedBy(emitted', "groupAdminChanged") = ConnectionsOf(ids) \ {c}
    ]_vars

\* the positions of the message list whose entry has another id than id
EntriesWithOtherId(id) == {i \in DOMAIN messages : messages[i].id # id}

\* C30: the step that handles a deleteMessage event emits one messageDeleted
\* notice, carrying the messageId of the payload, to all live connections in
\* the room named by the payload other than the sender's connection, and to
\* no other; the step in which the client handles a notice leaves the list
\* holding the entries with another id, each as it was and in the order they
\* had, and nothing else.
C30_DeletionRelayedAndApplied ==
  [][ /\ \A c \in Conns, data \in DeletePayloads(ConvRooms) :
           peerDeleteMessage(c, data) =>
             /\ Len(emitted') = 1
             /\ emitted'[1].ev = "messageDeleted"
             /\ emitted'[1].to = {d \in Conns \ {c} : connState[d] = "active" /\
                                                       data.conversationId \in rooms[d]}
             /\ emitted'[1].data = [messageId |-> data.messageId]
      /\ messageDeleted =>
           LET kept == EntriesWithOtherId(Head(inbox).messageId)
           IN /\ Len(messages') = Cardinality(kept)
              /\ \A i \in kept :
                   messages'[Cardinality({j \in kept : j <= i})] = messages[i]
    ]_vars

\* a peer in the open conversation's room has announced the deletion of a
\* message; the notice went to the client and not back to the peer, the
\* client has handled it, and its list holds another message and none with
\* the id of the notice
C30_Witness ==
  /\ inbound.ev = "deleteMessage" /\ inbound.conversationId \in rooms[inbound.conn]
  /\ Len(emitted) = 1 /\ emitted[1].to = {socket}
  /\ inbox = <<>>
  /\ messages # <<>>
  /\ \A i \in DOMAIN messages : messages[i].id # emitted[1].data.messageId

\* C31: the step in which the client handles a receiveMessage event for a
\* listed conversation that is not the selected one adds 1 to that
\* conversation's unreadCount if the message is not the one counted last,
\* and leaves the count as it is if it is a further copy of that message.
C31_UnreadCountedOncePerMessage ==
  [][ (receiveMessage /\ Head(inbox).conversationId \in DOMAIN conversations
                      /\ Head(inbox).conversationId # selectedConversation.id) =>
        LET id == Head(inbox).conversationId
        IN conversations'[id].unreadCount =
             conversations[id].unreadCount +
               (IF conversations[id].lastMessage = Head(inbox).id THEN 0 ELSE 1)
    ]_vars

\* C32: in the client's reaction mapping no user is listed more than once
\* for an emoji of a message.
C32_UserOncePerEmoji ==
  \A m \in MessageIds, e \in Emojis, u \in Users :
    Occurrences(messageReactions[m][e], u) <= 1

\* C33: the step in which the client handles a receiveMessage event whose
\* conversationId is that of the selected conversation, a regular one, and
\* which no entry of the list duplicates, appends the message to the list,
\* whatever selection the listeners were registered under.
C33_AppendedToSelectedConversation ==
  [][ (/\ receiveMessage
       /\ Head(inbox).conversationId = selectedConversation.id
       /\ ~selectedConversation.isAI
       /\ ~isDuplicate(messages, Head(inbox))) =>
        messages' = Append(messages, Head(inbox))
    ]_vars

\* the number of receiveMessage events among the emissions out that reach d
Copies(out, d) ==
  Cardinality({i \in DOMAIN out : out[i].ev = "receiveMessage" /\ d \in out[i].to})

\* C34: the step that handles a sendMessage naming a conversation delivers
\* receiveMessage twice to every live member of the room other than the
\* sending connection, once to the sending connection if it is a member,
\* and to no other connection.
C34_TwiceToOthersOnceToSender ==
  (inbound.ev = "sendMessage" /\ Truthy(inbound.conversationId)) =>
    \A d \in Conns :
      Copies(emitted, d) =
        IF Live(d) /\ inbound.conversationId \in rooms[d]
        THEN (IF d = inbound.conn THEN 1 ELSE 2)
        ELSE 0

\* a member of a room has sent a message to it while another connection
\* was a member: one copy for the sender, two for the other
C34_Witness ==
  /\ inbound.ev = "sendMessage" /\ inbound.conversationId \in ConvRooms
  /\ inbound.conversationId \in rooms[inbound.conn]
  /\ Copies(emitted, inbound.conn) = 1
  /\ \E d \in Conns \ {inbound.conn} : Copies(emitted, d) = 2

\* C35: the conversation rooms of the client's connection are none when no
\* conversation or the AI assistant is selected, and otherwise at most the
\* room of the selected conversation.
C35_OnlySelectedConversationRoom ==
  (socket # None /\ Live(socket)) =>
    (rooms[socket] \cap ConvRooms) \subseteq
      (IF selectedConversation = NoConversation \/ selectedConversation.isAI
       THEN {}
       ELSE {selectedConversation.id})

\* the follower and the following count of every key of counts are those
\* of before (a missing key or field reads as 0, as prev[id]?.field || 0)
SameCounts(counts, before) ==
  \A id \in DOMAIN counts \cup DOMAIN before :
    \A field \in {"followers", "following"} :
      countOf(counts, id, field) = countOf(before, id, field)

\* C36: when a toggleFollow call fails (success false, or the request
\* throws), the target's membership in followingUsers and every follower
\* and following count of followCounts are what they were before the call.
\* (Stated for a call no other call overlapped with.)
C36_FailedCallFullyReverted ==
  [][\A i \in DOMAIN followCalls :
       ((followRefused(i) \/ followThrew(i)) /\ followCalls[i].alone)
         => /\ (idOf(followCalls[i].user) \in followingUsers')
                 = followCalls[i].before.following
            /\ SameCounts(followCounts', followCalls[i].before.counts)]_vars

\* C37: after a successful toggleFollow the target's follower count in
\* followCounts is the targetUserFollowerCount of the response, and the
\* target is in followingUsers exactly if it was not before the call.
\* (Stated for a call no other call overlapped with.)
C37_SuccessTakesServerCount ==
  [][\A i \in DOMAIN followCalls :
       (followSucceeded(i) /\ followCalls[i].alone)
         => /\ countOf(followCounts', idOf(followCalls[i].user), "followers")
                 = followCalls[i].targetUserFollowerCount
            /\ (idOf(followCalls[i].user) \in followingUsers')
                 = ~followCalls[i].before.following]_vars

\* the sum of the following-count changes of the calls of log that
\* succeeded, each counted once
RECURSIVE followingApplied(_)
followingApplied(log) ==
  IF log = <<>> THEN 0
  ELSE followingApplied(Tail(log)) +
       (IF Head(log).outcome = "success" THEN delta(Head(log).call.wasFollowing) ELSE 0)

\* C38: when toggleFollow is called twice for one target before the first
\* call is over, then after both are over the target is in followingUsers
\* exactly if the server holds the follow relation, and each following
\* count stands at what one application per successful call gives.
\* (Stated for two calls made with the same user object, whose requests
\* either got their response or never reached the endpoint.)
C38_OverlappingCallsAgreeWithServer ==
  ( /\ followCalls = <<>>
    /\ Len(followLog) = 2
    /\ followLog[1].call.user = followLog[2].call.user
    /\ \A n \in 1..2 : /\ ~followLog[n].call.alone
                       /\ ~(followLog[n].outcome = "error" /\ followLog[n].call.served) )
    => /\ (idOf(followLog[1].call.user) \in followingUsers) = followServer.following
       /\ \A id \in DOMAIN followCounts :
            "following" \in DOMAIN followCounts[id]
              => followCounts[id]["following"] = followingApplied(followLog)

\* C39: a user id is in processingUsers exactly while a toggleFollow call
\* for it is in flight.
C39_ProcessingWhileInFlight ==
  \A user \in UserObjects :
    (idOf(user) \in processingUsers)
      <=> \E i \in DOMAIN followCalls : idOf(followCalls[i].user) = idOf(user)

\* C40: on a response with status 401 the client removes the stored token
\* and user, redirects to /login unless the current path is the login or
\* the register page, and rejects the request's promise with the error.
C40_UnauthorizedClearsAndRedirects ==
  [][(request # NoRequest /\ respond(401))
       => /\ localStorage' \cap {"token", "user"} = {}
          /\ pathname' = (IF pathname \in {LoginPath, RegisterPath}
                            THEN pathname ELSE LoginPath)
          /\ settled' = [state |-> "rejected", status |-> 401, url |-> request.url]]_vars

====
